---- MODULE Spec2Model ----
(***************************************************************************)
(* The OCR-to-catalog pipeline of ia-utils: the catalog store              *)
(* (create_catalog_database, rebuild_text_blocks, build_fts_indexes), the  *)
(* commands that drive it (create-catalog, rebuild-catalog) and the search *)
(* front end (escape_fts_query, search_pages).                             *)
(*                                                                         *)
(* A catalog is one SQLite file.  Tables are sets of rows, text is a       *)
(* sequence of characters (an alphanumeric word is one character of the    *)
(* model), and every statement the code runs in autocommit is one step.    *)
(***************************************************************************)
EXTENDS Integers, Sequences, FiniteSets, TLC

VARIABLES
    file,               \* TRUE when a database file exists at the catalog path
    tables,             \* names of the tables of the file (sqlite_master)
    triggers,           \* names of the triggers of the file
    meta_layout,        \* column layout of document_metadata
    catalog_metadata,   \* rows of catalog_metadata: [key, value]
    document_metadata,  \* rows of document_metadata: [key, value]
    archive_files,      \* rows of archive_files: [filename, format]
    page_numbers,       \* rows of page_numbers: [leaf_num, book_page_number]
    pages,              \* rows of pages (searchtext enrichment): [page_id]
    text_blocks,        \* rows of text_blocks: [rowid, page_id, block_number, hocr_id, text]
    tb_pk,              \* primary key of text_blocks: "hocr_id" or "composite"
    text_blocks_fts,    \* block-level index: [rowid, text]
    pages_fts,          \* page-level index: [rowid, page_text, page_id]
    pc,                 \* position of the running command
    cur,                \* arguments of the running command
    outcome,            \* the last command and how it ended: "ok", "failed", "rejected"
    before,             \* what the command found at the path (rebuild-catalog: the
                        \* whole catalog; create-catalog: the file and its indices)
    query,              \* search-catalog: the -q argument
    raw,                \* search-catalog: the --raw flag
    use_blocks,         \* search-catalog: the --blocks flag
    fts_query,          \* search-catalog: the query handed to the engine
    results,            \* search-catalog: the rows the engine returned, or its error
    input,              \* a library call under study: the function and its arguments
    output              \* what the call returned or raised

vars == <<file, tables, triggers, meta_layout, catalog_metadata, document_metadata,
          archive_files, page_numbers, pages, text_blocks, tb_pk, text_blocks_fts,
          pages_fts, pc, cur, outcome, before, query, raw, use_blocks, fts_query, results, input, output>>

catalogVars == <<file, tables, triggers, meta_layout, catalog_metadata, document_metadata,
                 archive_files, page_numbers, pages, text_blocks, tb_pk, text_blocks_fts,
                 pages_fts>>

searchVars == <<query, raw, use_blocks, fts_query, results>>

callVars == <<input, output>>

----------------------------------------------------------------------------
(* Source material of an Internet Archive item, as the parsers return it.  *)

IaId == "id1"

Block(p, n, h, t) == [page_id |-> p, block_number |-> n, hocr_id |-> h, text |-> t]

\* Block lists parse_hocr can return.  Pages come in document order and
\* block_number is the position among the page's sorted blocks (blocks with
\* empty text are skipped, so numbers may have gaps); page_id is read from
\* the page element's id attribute (0 when it has none), hocr_id from the
\* block's id attribute, so either may repeat.
HocrBlockLists ==
    { <<>>,
      << Block(0, 0, "x", <<"b">>), Block(1, 0, "y", <<"a">>), Block(1, 1, "z", <<"b">>) >>,
      << Block(0, 0, "x", <<"a">>), Block(1, 0, "x", <<"b">>) >>,
      << Block(0, 1, "x", <<"a">>), Block(0, 0, "y", <<"b">>) >> }

\* Block lists blocks_from_searchtext can return: page_id counts the entries
\* of the page index, block_number the lines of the page; no hocr_id column.
SearchtextBlockLists ==
    { <<>>,
      << Block(0, 0, "", <<"a">>), Block(0, 2, "", <<"b">>), Block(1, 0, "", <<"a">>) >> }

Metadata1 == << <<"identifier", "id1">>, <<"title", "t1">> >>
Metadata2 == << <<"identifier", "id1">>, <<"language", "eng">>, <<"language", "lat">> >>

Files1 == << [filename |-> "id1_hocr.html", format |-> "hOCR"] >>
Files2 == << [filename |-> "id1_hocr.html", format |-> "hOCR"],
             [filename |-> "id1_page_numbers.json", format |-> "JSON"] >>

NoPageNumbers == [present |-> FALSE, pages |-> <<>>]
PageNumbers2 == [present |-> TRUE,
                 pages |-> << [leafNum |-> 0, pageNumber |-> "i"],
                              [leafNum |-> 1, pageNumber |-> "42"] >>]

\* What the archive serves for the item at the time of a download.
Bundles ==
    { [metadata |-> Metadata1, files |-> Files1, page_numbers |-> NoPageNumbers],
      [metadata |-> Metadata2, files |-> Files2, page_numbers |-> PageNumbers2] }

\* What the OCR download of a create-catalog run parses to: fast mode
\* (searchtext plus page index) or the hOCR fallback.
Sources ==
    {[mode |-> "hocr", blocks |-> b, pages |-> {}] : b \in HocrBlockLists}
    \cup {[mode |-> "searchtext", blocks |-> b, pages |-> {[page_id |-> 0], [page_id |-> 1]}]
             : b \in SearchtextBlockLists}

NoOutcome == [op |-> "none", result |-> "none"]

NoCommand == [op |-> "none", mode |-> "hocr", bundle |-> CHOOSE b \in Bundles : TRUE,
              blocks |-> <<>>, pages |-> {}]

----------------------------------------------------------------------------
(* SQLite and sqlite-utils primitives used by the store.                   *)

Max(S) == CHOOSE x \in S : \A y \in S : y <= x
Min(S) == CHOOSE x \in S : \A y \in S : x <= y

\* The rowid SQLite gives a new row of a table without INTEGER PRIMARY KEY.
NextRowid(rows) == IF rows = {} THEN 1 ELSE Max({r.rowid : r \in rows}) + 1

SamePk(pk, r, b) ==
    IF pk = "composite"
    THEN r.page_id = b.page_id /\ r.block_number = b.block_number
    ELSE r.hocr_id = b.hocr_id

Row(rid, b) == [rowid |-> rid, page_id |-> b.page_id, block_number |-> b.block_number,
                hocr_id |-> b.hocr_id, text |-> b.text]

\* insert_all(records, pk=..., replace=True): INSERT OR REPLACE, record by
\* record.  The new rowid is taken before the conflicting row is removed.
RECURSIVE InsertAll(_, _, _)
InsertAll(rows, blocks, pk) ==
    IF blocks = <<>> THEN rows
    ELSE LET b == Head(blocks)
             kept == {r \in rows : ~SamePk(pk, r, b)}
         IN InsertAll(kept \cup {Row(NextRowid(rows), b)}, Tail(blocks), pk)

\* The rows of a set in ascending rowid order.
RECURSIVE InRowidOrder(_)
InRowidOrder(rows) ==
    IF rows = {} THEN <<>>
    ELSE LET first == CHOOSE r \in rows : \A s \in rows : r.rowid <= s.rowid
         IN <<first>> \o InRowidOrder(rows \ {first})

\* group_concat(text, ' ') over texts in the order they are visited.
RECURSIVE JoinTexts(_)
JoinTexts(ts) ==
    IF ts = <<>> THEN <<>>
    ELSE IF Len(ts) = 1 THEN ts[1]
    ELSE ts[1] \o <<" ">> \o JoinTexts(Tail(ts))

TextsOf(rowseq) == [k \in 1..Len(rowseq) |-> rowseq[k].text]

PageIdsOf(rows) == {r.page_id : r \in rows}

\* SELECT group_concat(text, ' ') FROM text_blocks ... page_id = p: the rows
\* of a leaf are visited in rowid order.
GroupConcat(rows, p) == JoinTexts(TextsOf(InRowidOrder({r \in rows : r.page_id = p})))

\* A page index that takes one text per leaf instead of the aggregate.
PagesOfFirstTexts(rows) ==
    { [rowid |-> 1 + Cardinality({q \in PageIdsOf(rows) : q < p}),
       page_text |-> InRowidOrder({r \in rows : r.page_id = p})[1].text,
       page_id |-> p] : p \in PageIdsOf(rows) }

\* SELECT ROW_NUMBER() OVER (ORDER BY page_id), group_concat(text, ' '),
\* page_id FROM text_blocks GROUP BY page_id.
PagesAggregate(rows) ==
    { [rowid |-> 1 + Cardinality({q \in PageIdsOf(rows) : q < p}),
       page_text |-> GroupConcat(rows, p),
       page_id |-> p] : p \in PageIdsOf(rows) }

\* enable_fts(['text']): INSERT INTO text_blocks_fts(rowid, text)
\* SELECT rowid, text FROM text_blocks.
PopulateFts(rows) == {[rowid |-> r.rowid, text |-> r.text] : r \in rows}

\* INSERT INTO index ... SELECT ...: the selected rows join those the index
\* already holds.
InsertInto(index, selected) == index \cup selected

\* get_page_text: SELECT group_concat(text, ' ') FROM text_blocks WHERE
\* page_id = ? ORDER BY rowid; '' when the leaf has no rows.
GetPageText(rows, leaf) ==
    IF {r \in rows : r.page_id = leaf} = {} THEN <<>> ELSE GroupConcat(rows, leaf)

BlockTriggers == {"text_blocks_ai", "text_blocks_ad", "text_blocks_au"}
PageTriggers == {"rebuild_pages_fts_after_insert", "rebuild_pages_fts_after_update",
                 "rebuild_pages_fts_after_delete"}

\* Metadata tuples to key/value records; a repeated key joins its values.
RECURSIVE MetadataDict(_, _)
MetadataDict(metadata, acc) ==
    IF metadata = <<>> THEN acc
    ELSE LET k == Head(metadata)[1]
             v == Head(metadata)[2]
             old == {r \in acc : r.key = k}
             new == IF old = {} THEN [key |-> k, value |-> v]
                    ELSE [key |-> k, value |-> (CHOOSE r \in old : TRUE).value \o "; " \o v]
         IN MetadataDict(Tail(metadata), (acc \ old) \cup {new})

FilesRecords(files) == {files[k] : k \in 1..Len(files)}

PageRecords(pn) ==
    {[leaf_num |-> pn.pages[k].leafNum, book_page_number |-> pn.pages[k].pageNumber]
        : k \in 1..Len(pn.pages)}

CatalogRecords(mode) == {[key |-> "slug", value |-> "slug-" \o IaId],
                         [key |-> "catalog_mode", value |-> mode]}

PkOf(mode) == IF mode = "searchtext" THEN "composite" ELSE "hocr_id"

----------------------------------------------------------------------------
(* The catalog file.                                                       *)

Catalog == [file |-> file, tables |-> tables, triggers |-> triggers,
            meta_layout |-> meta_layout, catalog_metadata |-> catalog_metadata,
            document_metadata |-> document_metadata, archive_files |-> archive_files,
            page_numbers |-> page_numbers, pages |-> pages, text_blocks |-> text_blocks,
            tb_pk |-> tb_pk, text_blocks_fts |-> text_blocks_fts, pages_fts |-> pages_fts]

NoCatalog == [file |-> FALSE, tables |-> {}, triggers |-> {}, meta_layout |-> "none",
              catalog_metadata |-> {}, document_metadata |-> {}, archive_files |-> {},
              page_numbers |-> {}, pages |-> {}, text_blocks |-> {}, tb_pk |-> "none",
              text_blocks_fts |-> {}, pages_fts |-> {}]

\* The catalog a complete build of the given material leaves behind.
BuiltCatalog(src, bundle, layout) ==
    LET rows == InsertAll({}, src.blocks, PkOf(src.mode))
    IN [file |-> TRUE,
        tables |-> {"catalog_metadata", "document_metadata", "archive_files", "text_blocks",
                    "text_blocks_fts", "pages_fts"}
                   \cup (IF src.pages # {} THEN {"pages"} ELSE {})
                   \cup (IF bundle.page_numbers.present THEN {"page_numbers"} ELSE {}),
        triggers |-> BlockTriggers \cup PageTriggers,
        meta_layout |-> layout,
        catalog_metadata |-> CatalogRecords(src.mode),
        document_metadata |-> MetadataDict(bundle.metadata, {}),
        archive_files |-> FilesRecords(bundle.files),
        page_numbers |-> PageRecords(bundle.page_numbers),
        pages |-> src.pages,
        text_blocks |-> rows,
        tb_pk |-> PkOf(src.mode),
        text_blocks_fts |-> PopulateFts(rows),
        pages_fts |-> PagesAggregate(rows)]

SetCatalog(c) ==
    /\ file' = c.file
    /\ tables' = c.tables
    /\ triggers' = c.triggers
    /\ meta_layout' = c.meta_layout
    /\ catalog_metadata' = c.catalog_metadata
    /\ document_metadata' = c.document_metadata
    /\ archive_files' = c.archive_files
    /\ page_numbers' = c.page_numbers
    /\ pages' = c.pages
    /\ text_blocks' = c.text_blocks
    /\ tb_pk' = c.tb_pk
    /\ text_blocks_fts' = c.text_blocks_fts
    /\ pages_fts' = c.pages_fts

\* DROP TABLE t (ignored when t does not exist).  Dropping text_blocks
\* drops the triggers defined on it; an index table is dropped with its
\* content.
\* A drop that leaves the table and its rows in place.
DropLeavesTable(c, t) == c

DropTable(c, t) ==
    [c EXCEPT !.tables = @ \ {t},
              !.triggers = IF t = "text_blocks" THEN {} ELSE @,
              !.meta_layout = IF t = "document_metadata" THEN "none" ELSE @,
              !.catalog_metadata = IF t = "catalog_metadata" THEN {} ELSE @,
              !.document_metadata = IF t = "document_metadata" THEN {} ELSE @,
              !.archive_files = IF t = "archive_files" THEN {} ELSE @,
              !.page_numbers = IF t = "page_numbers" THEN {} ELSE @,
              !.pages = IF t = "pages" THEN {} ELSE @,
              !.text_blocks = IF t = "text_blocks" THEN {} ELSE @,
              !.tb_pk = IF t = "text_blocks" THEN "none" ELSE @,
              !.text_blocks_fts = IF t = "text_blocks_fts" THEN {} ELSE @,
              !.pages_fts = IF t = "pages_fts" THEN {} ELSE @]

DropOrder == <<"text_blocks_fts", "pages_fts", "text_blocks", "pages",
               "page_numbers", "archive_files", "document_metadata", "catalog_metadata">>

\* db['text_blocks'].insert_all(blocks, pk=..., replace=True) into a table
\* that does not exist yet; an empty list creates no table.
InsertTextBlocks(c, blocks, pk) ==
    IF blocks = <<>> THEN c
    ELSE [c EXCEPT !.tables = @ \cup {"text_blocks"},
                   !.text_blocks = InsertAll(@, blocks, pk),
                   !.tb_pk = pk]

Goto(p) == /\ pc' = p
           /\ UNCHANGED <<cur, outcome, before>>

\* The command ends: with the exception handlers of the commands
\* (logger.error, sys.exit(1)) or with the final echo.
Finish(how) == /\ pc' = "idle"
               /\ cur' = NoCommand
               /\ outcome' = [op |-> cur.op, result |-> how]
               /\ UNCHANGED before

----------------------------------------------------------------------------
(* create_catalog_database, statement by statement.                        *)

\* create-catalog: download and parse, then build at the output path.
CreateCatalog ==
    /\ pc = "idle"
    /\ \E src \in Sources, bundle \in Bundles :
         cur' = [op |-> "create", mode |-> src.mode, bundle |-> bundle,
                 blocks |-> src.blocks, pages |-> src.pages]
    /\ pc' = "c_open"
    /\ outcome' = NoOutcome
    /\ before' = [NoCatalog EXCEPT !.file = file, !.text_blocks_fts = text_blocks_fts,
                                   !.pages_fts = pages_fts]
    /\ UNCHANGED catalogVars
    /\ UNCHANGED <<searchVars, callVars>>

\* db = sqlite_utils.Database(output_path)
OpenDatabase ==
    /\ pc = "c_open"
    /\ SetCatalog([Catalog EXCEPT !.file = TRUE])
    /\ Goto("c_drop")
    /\ UNCHANGED <<searchVars, callVars>>

RECURSIVE DropAll(_, _)
DropAll(c, names) ==
    IF names = <<>> THEN c ELSE DropAll(DropTable(c, Head(names)), Tail(names))

\* for table in [...]: db[table].drop(ignore=True)
DropExisting ==
    /\ pc = "c_drop"
    /\ SetCatalog(DropAll(Catalog, DropOrder))
    /\ Goto("c_catalog_metadata")
    /\ UNCHANGED <<searchVars, callVars>>

WriteCatalogMetadata ==
    /\ pc = "c_catalog_metadata"
    /\ SetCatalog([Catalog EXCEPT !.tables = @ \cup {"catalog_metadata"},
                                  !.catalog_metadata = CatalogRecords(cur.mode)])
    /\ Goto("c_document_metadata")
    /\ UNCHANGED <<searchVars, callVars>>

WriteDocumentMetadata ==
    /\ pc = "c_document_metadata"
    /\ SetCatalog([Catalog EXCEPT !.tables = @ \cup {"document_metadata"},
                                  !.meta_layout = "key_value",
                                  !.document_metadata = MetadataDict(cur.bundle.metadata, {})])
    /\ Goto("c_archive_files")
    /\ UNCHANGED <<searchVars, callVars>>

WriteArchiveFiles ==
    /\ pc = "c_archive_files"
    /\ SetCatalog([Catalog EXCEPT !.tables = @ \cup {"archive_files"},
                                  !.archive_files = FilesRecords(cur.bundle.files)])
    /\ Goto("c_text_blocks")
    /\ UNCHANGED <<searchVars, callVars>>

WriteTextBlocks ==
    /\ pc = "c_text_blocks"
    /\ SetCatalog(InsertTextBlocks(Catalog, cur.blocks, PkOf(cur.mode)))
    /\ Goto("c_pages")
    /\ UNCHANGED <<searchVars, callVars>>

\* if pages: db['pages'].insert_all(pages, ...)
\* if page_numbers and 'pages' in page_numbers: db['page_numbers'].insert_all(...)
WritePagesAndPageNumbers ==
    /\ pc = "c_pages"
    /\ SetCatalog([Catalog EXCEPT
          !.tables = @ \cup (IF cur.pages # {} THEN {"pages"} ELSE {})
                       \cup (IF cur.bundle.page_numbers.present THEN {"page_numbers"} ELSE {}),
          !.pages = cur.pages,
          !.page_numbers = PageRecords(cur.bundle.page_numbers)])
    /\ Goto("c_indexes")
    /\ UNCHANGED <<searchVars, callVars>>

\* CREATE INDEX ... ON text_blocks(...): "no such table" when the block
\* list was empty and insert_all created nothing.
CreateIndexes ==
    /\ pc = "c_indexes"
    /\ IF "text_blocks" \in tables THEN Goto("fts_drop_blocks") ELSE Finish("failed")
    /\ UNCHANGED catalogVars
    /\ UNCHANGED <<searchVars, callVars>>

----------------------------------------------------------------------------
(* build_fts_indexes, statement by statement.                              *)

\* DROP TRIGGER IF EXISTS text_blocks_ai/_ad/_au; DROP TABLE IF EXISTS
\* text_blocks_fts.
DropBlockIndex(c) ==
    [DropTable(c, "text_blocks_fts") EXCEPT !.triggers = @ \ BlockTriggers]

FtsDropBlockIndex ==
    /\ pc = "fts_drop_blocks"
    /\ SetCatalog(DropBlockIndex(Catalog))
    /\ Goto("fts_create_blocks")
    /\ UNCHANGED <<searchVars, callVars>>

\* enable_fts, first statement: CREATE VIRTUAL TABLE text_blocks_fts
\* USING FTS5 (text, content=text_blocks).
FtsCreateBlockIndex ==
    /\ pc = "fts_create_blocks"
    /\ SetCatalog([Catalog EXCEPT !.tables = @ \cup {"text_blocks_fts"}])
    /\ Goto("fts_populate_blocks")
    /\ UNCHANGED <<searchVars, callVars>>

\* enable_fts, populate_fts: "no such table" when text_blocks is missing.
FtsPopulateBlockIndex ==
    /\ pc = "fts_populate_blocks"
    /\ IF "text_blocks" \in tables
       THEN /\ SetCatalog([Catalog EXCEPT
                   !.text_blocks_fts = InsertInto(@, PopulateFts(text_blocks))])
            /\ Goto("fts_block_triggers")
       ELSE /\ UNCHANGED catalogVars
            /\ Finish("failed")
    /\ UNCHANGED <<searchVars, callVars>>

\* enable_fts(create_triggers=True)
FtsCreateBlockTriggers ==
    /\ pc = "fts_block_triggers"
    /\ SetCatalog([Catalog EXCEPT !.triggers = @ \cup BlockTriggers])
    /\ Goto("fts_drop_pages")
    /\ UNCHANGED <<searchVars, callVars>>

\* DROP TRIGGER IF EXISTS rebuild_pages_fts_after_*; DROP TABLE IF EXISTS
\* pages_fts.
DropPageIndex(c) ==
    [DropTable(c, "pages_fts") EXCEPT !.triggers = @ \ PageTriggers]

FtsDropPageIndex ==
    /\ pc = "fts_drop_pages"
    /\ SetCatalog(DropPageIndex(Catalog))
    /\ Goto("fts_create_pages")
    /\ UNCHANGED <<searchVars, callVars>>

\* CREATE VIRTUAL TABLE pages_fts USING fts5(page_text, page_id UNINDEXED)
FtsCreatePageIndex ==
    /\ pc = "fts_create_pages"
    /\ SetCatalog([Catalog EXCEPT !.tables = @ \cup {"pages_fts"}])
    /\ Goto("fts_populate_pages")
    /\ UNCHANGED <<searchVars, callVars>>

\* INSERT INTO pages_fts(rowid, page_text, page_id) SELECT ... GROUP BY page_id
FtsPopulatePageIndex ==
    /\ pc = "fts_populate_pages"
    /\ SetCatalog([Catalog EXCEPT !.pages_fts = InsertInto(@, PagesAggregate(text_blocks))])
    /\ Goto("fts_page_triggers")
    /\ UNCHANGED <<searchVars, callVars>>

\* CREATE TRIGGER rebuild_pages_fts_after_insert/_update/_delete; then
\* build_fts_indexes returns to its caller.
FtsCreatePageTriggers ==
    /\ pc = "fts_page_triggers"
    /\ SetCatalog([Catalog EXCEPT !.triggers = @ \cup PageTriggers])
    /\ Goto(IF cur.op = "rebuild_text" THEN "r_vacuum" ELSE "c_stats")
    /\ UNCHANGED <<searchVars, callVars>>

\* create_catalog_database reads its statistics and returns; the command
\* prints the path.
CreateReturns ==
    /\ pc = "c_stats"
    /\ Finish("ok")
    /\ UNCHANGED catalogVars
    /\ UNCHANGED <<searchVars, callVars>>

----------------------------------------------------------------------------
(* rebuild-catalog.                                                        *)

HocrFile == IaId \o "_hocr.html"

\* The checks rebuild_catalog runs before it changes anything: both tables
\* exist, the first row of document_metadata has an 'identifier' column,
\* and (text-only) archive_files lists the hOCR file.
RebuildAccepts(full) ==
    /\ "document_metadata" \in tables
    /\ "archive_files" \in tables
    /\ meta_layout = "identifier"
    /\ document_metadata # {}
    /\ full \/ \E f \in archive_files : f.filename = HocrFile

\* rebuild-catalog on a file that fails a check: logger.error, sys.exit(1).
RebuildRejected ==
    /\ pc = "idle"
    /\ file
    /\ \E full \in BOOLEAN : ~RebuildAccepts(full)
    /\ outcome' = [op |-> "rebuild", result |-> "rejected"]
    /\ before' = NoCatalog
    /\ UNCHANGED <<pc, cur>>
    /\ UNCHANGED catalogVars
    /\ UNCHANGED <<searchVars, callVars>>

\* rebuild-catalog CATALOG (text only).
RebuildText ==
    /\ pc = "idle"
    /\ file
    /\ RebuildAccepts(FALSE)
    /\ \E blocks \in HocrBlockLists :
         cur' = [NoCommand EXCEPT !.op = "rebuild_text", !.blocks = blocks]
    /\ pc' = "r_download"
    /\ outcome' = NoOutcome
    /\ before' = Catalog
    /\ UNCHANGED catalogVars
    /\ UNCHANGED <<searchVars, callVars>>

\* A rebuild that drops text_blocks before the download has returned.
RebuildDropsBeforeDownload ==
    /\ pc = "r_download"
    /\ SetCatalog(DropTable(Catalog, "text_blocks"))
    /\ Goto("r_drop")
    /\ UNCHANGED <<searchVars, callVars>>

\* rebuild_text_blocks: download_file and parse_hocr have returned.
RebuildDownloaded ==
    /\ pc = "r_download"
    /\ Goto("r_drop")
    /\ UNCHANGED catalogVars
    /\ UNCHANGED <<searchVars, callVars>>

\* A rebuild that drops every table of the catalog, not text_blocks alone.
RebuildDropsAllTables ==
    /\ pc = "r_drop"
    /\ SetCatalog(DropAll(Catalog, DropOrder))
    /\ Goto("r_insert")
    /\ UNCHANGED <<searchVars, callVars>>

\* rebuild_text_blocks: db['text_blocks'].drop(ignore=True)
RebuildDropTextBlocks ==
    /\ pc = "r_drop"
    /\ SetCatalog(DropTable(Catalog, "text_blocks"))
    /\ Goto("r_insert")
    /\ UNCHANGED <<searchVars, callVars>>

\* rebuild_text_blocks: db['text_blocks'].insert_all(blocks_list,
\* pk='hocr_id', replace=True); return len(blocks_list).
RebuildInsertTextBlocks ==
    /\ pc = "r_insert"
    /\ SetCatalog(InsertTextBlocks(Catalog, cur.blocks, "hocr_id"))
    /\ Goto("fts_drop_blocks")
    /\ UNCHANGED <<searchVars, callVars>>

\* VACUUM renumbers the rowids of a table that has neither an INTEGER
\* PRIMARY KEY nor an index, and keeps them otherwise.
Renumbered(rows) ==
    {[r EXCEPT !.rowid = Cardinality({s \in rows : s.rowid <= r.rowid})] : r \in rows}

\* A VACUUM that renumbers whatever the table declares.
VacuumRenumbers(rows, indexed) == Renumbered(rows)

VacuumRows(rows, indexed) == IF indexed THEN rows ELSE Renumbered(rows)

\* text_blocks always has a declared primary key (hocr_id, or page_id with
\* block_number), hence the automatic index of that key.
TextBlocksIndexed == tb_pk \in {"hocr_id", "composite"}

\* db.execute("VACUUM;"), the size report and the final echo.
RebuildVacuum ==
    /\ pc = "r_vacuum"
    /\ SetCatalog([Catalog EXCEPT !.text_blocks = VacuumRows(@, TextBlocksIndexed)])
    /\ Finish("ok")
    /\ UNCHANGED <<searchVars, callVars>>

\* rebuild-catalog CATALOG --full: the downloads and the parsing come first.
RebuildFull ==
    /\ pc = "idle"
    /\ file
    /\ RebuildAccepts(TRUE)
    /\ \E blocks \in HocrBlockLists, bundle \in Bundles :
         cur' = [op |-> "rebuild_full", mode |-> "hocr", bundle |-> bundle,
                 blocks |-> blocks, pages |-> {}]
    /\ pc' = "rf_download"
    /\ outcome' = NoOutcome
    /\ before' = Catalog
    /\ UNCHANGED catalogVars
    /\ UNCHANGED <<searchVars, callVars>>

\* catalog_path.unlink(), then create_catalog_database on the same path.
RebuildUnlink ==
    /\ pc = "rf_download"
    /\ SetCatalog(NoCatalog)
    /\ Goto("c_open")
    /\ UNCHANGED <<searchVars, callVars>>

\* Any statement of a running command may raise (a failed download, a full
\* disk, an I/O error); the command reports it and exits.
CommandFails ==
    /\ pc # "idle"
    /\ Finish("failed")
    /\ UNCHANGED catalogVars
    /\ UNCHANGED <<searchVars, callVars>>

----------------------------------------------------------------------------
(* The catalog store under the commands.                                   *)

LegacyLayouts == {"identifier"}

\* A catalog path holds nothing, or a catalog an earlier build completed
\* (builds of earlier releases stored document_metadata as one row of
\* columns).
InitialCatalogs ==
    {NoCatalog} \cup
    {BuiltCatalog(src, bundle, layout) :
        src \in {s \in Sources : s.blocks # <<>>}, bundle \in Bundles, layout \in LegacyLayouts}

NoResults == [status |-> "none", rows |-> {}]

NoInput == [kind |-> "none"]

NoOutput == [status |-> "none", error |-> "", blocks |-> <<>>, pages |-> <<>>]

NoCall ==
    /\ input = NoInput
    /\ output = NoOutput

NoSearch ==
    /\ query = <<>>
    /\ raw = FALSE
    /\ use_blocks = FALSE
    /\ fts_query = <<>>
    /\ results = NoResults

\* The catalog at the path is c.
CatalogIs(c) ==
    /\ file = c.file
    /\ tables = c.tables
    /\ triggers = c.triggers
    /\ meta_layout = c.meta_layout
    /\ catalog_metadata = c.catalog_metadata
    /\ document_metadata = c.document_metadata
    /\ archive_files = c.archive_files
    /\ page_numbers = c.page_numbers
    /\ pages = c.pages
    /\ text_blocks = c.text_blocks
    /\ tb_pk = c.tb_pk
    /\ text_blocks_fts = c.text_blocks_fts
    /\ pages_fts = c.pages_fts

Init ==
    /\ \E c \in InitialCatalogs : CatalogIs(c)
    /\ before = NoCatalog
    /\ pc = "idle"
    /\ cur = NoCommand
    /\ outcome = NoOutcome
    /\ NoSearch
    /\ NoCall

Next ==
    \/ CreateCatalog
    \/ OpenDatabase
    \/ DropExisting
    \/ WriteCatalogMetadata
    \/ WriteDocumentMetadata
    \/ WriteArchiveFiles
    \/ WriteTextBlocks
    \/ WritePagesAndPageNumbers
    \/ CreateIndexes
    \/ FtsDropBlockIndex
    \/ FtsCreateBlockIndex
    \/ FtsPopulateBlockIndex
    \/ FtsCreateBlockTriggers
    \/ FtsDropPageIndex
    \/ FtsCreatePageIndex
    \/ FtsPopulatePageIndex
    \/ FtsCreatePageTriggers
    \/ CreateReturns
    \/ RebuildRejected
    \/ RebuildText
    \/ RebuildDownloaded
    \/ RebuildDropTextBlocks
    \/ RebuildInsertTextBlocks
    \/ RebuildVacuum
    \/ RebuildFull
    \/ RebuildUnlink
    \/ CommandFails

Spec == Init /\ [][Next]_vars

----------------------------------------------------------------------------
(* The triggers build_fts_indexes installs, under SQL a client of the      *)
(* catalog file runs on text_blocks.                                       *)

MaxRowid == 3

\* Rows a client inserts, and the values it updates to.
DmlBlocks == { Block(0, 2, "w", <<"c">>), Block(2, 0, "u", <<"a">>) }
DmlTexts == { <<"c">> }
DmlPageIds == {0, 1}

FtsEntry(r) == [rowid |-> r.rowid, text |-> r.text]

\* A trigger body without its DELETE FROM pages_fts.
TriggerAppendsPages(index, rows) == InsertInto(index, PagesAggregate(rows))

\* The body of rebuild_pages_fts_after_insert/_update/_delete:
\* DELETE FROM pages_fts; INSERT INTO pages_fts ... GROUP BY page_id.
TriggerRebuildPages(index, rows) == InsertInto({}, PagesAggregate(rows))

\* A statement on text_blocks runs the triggers installed for its event;
\* it is rolled back when a trigger's index table is missing.
TriggersCanRun(event) ==
    /\ ("text_blocks_a" \o event) \in triggers => "text_blocks_fts" \in tables
    /\ PageTriggers \cap triggers # {} => "pages_fts" \in tables

PageTriggerOf(event) ==
    IF event = "i" THEN "rebuild_pages_fts_after_insert"
    ELSE IF event = "u" THEN "rebuild_pages_fts_after_update"
    ELSE "rebuild_pages_fts_after_delete"

\* The catalog after a statement turned text_blocks into rows2, taking
\* the index entries `removed` out and putting `added` in.
AfterStatement(c, event, rows2, removed, added) ==
    [c EXCEPT !.text_blocks = rows2,
              !.text_blocks_fts = IF ("text_blocks_a" \o event) \in c.triggers
                                  THEN (@ \ removed) \cup added ELSE @,
              !.pages_fts = IF PageTriggerOf(event) \in c.triggers
                            THEN TriggerRebuildPages(@, rows2) ELSE @]

\* `before` keeps the rows the statement touched as they were.
Statement(op, touched) ==
    /\ outcome' = [op |-> op, result |-> "ok"]
    /\ before' = [NoCatalog EXCEPT !.text_blocks = touched]
    /\ UNCHANGED <<pc, cur>>
    /\ UNCHANGED <<searchVars, callVars>>

\* INSERT INTO text_blocks VALUES (...)
SqlInsert ==
    /\ pc = "idle"
    /\ "text_blocks" \in tables
    /\ TriggersCanRun("i")
    /\ NextRowid(text_blocks) <= MaxRowid
    /\ \E b \in DmlBlocks :
         /\ \A r \in text_blocks : ~SamePk(tb_pk, r, b)
         /\ LET new == Row(NextRowid(text_blocks), b)
            IN SetCatalog(AfterStatement(Catalog, "i", text_blocks \cup {new},
                                         {}, {FtsEntry(new)}))
    /\ Statement("insert", {})

\* UPDATE text_blocks SET text = ?, page_id = ? WHERE rowid = ?
SqlUpdate ==
    /\ pc = "idle"
    /\ "text_blocks" \in tables
    /\ TriggersCanRun("u")
    /\ \E r \in text_blocks, t \in DmlTexts, p \in DmlPageIds :
         /\ Statement("update", {r})
         /\ <<t, p>> # <<r.text, r.page_id>>
         /\ tb_pk = "composite" =>
              \A s \in text_blocks \ {r} : ~(s.page_id = p /\ s.block_number = r.block_number)
         /\ LET new == [r EXCEPT !.text = t, !.page_id = p]
            IN SetCatalog(AfterStatement(Catalog, "u", (text_blocks \ {r}) \cup {new},
                                         {FtsEntry(r)}, {FtsEntry(new)}))

\* DELETE FROM text_blocks WHERE rowid = ?
SqlDelete ==
    /\ pc = "idle"
    /\ "text_blocks" \in tables
    /\ TriggersCanRun("d")
    /\ \E r \in text_blocks :
         /\ SetCatalog(AfterStatement(Catalog, "d", text_blocks \ {r}, {FtsEntry(r)}, {}))
         /\ Statement("delete", {r})

NextDml ==
    \/ SqlInsert
    \/ SqlUpdate
    \/ SqlDelete

\* Catalogs on which build_fts_indexes has run, under client statements.
SpecDml == Init /\ [][NextDml]_vars

----------------------------------------------------------------------------
(* search-catalog: escape_fts_query and the FTS5 engine it hands the query *)
(* to.  A text is a sequence of characters; a run of letters that never    *)
(* splits ("self") stands as one character.                                *)

Space == " "
Quote == "\""

FTS5_SPECIAL_CHARS == {"-", "*", "^", ":", "(", ")"}

\* ^(AND|OR|NOT|NEAR(/\d+)?)$ on the queries drawn below, whose letters
\* are upper case in operator words only.
FTS5_KEYWORD(token) == token \in {<<"AND">>, <<"OR">>, <<"NOT">>, <<"NEAR">>}

\* str.split(): the maximal runs without whitespace.
RECURSIVE SplitFrom(_, _)
SplitFrom(s, w) ==
    IF s = <<>> THEN (IF w = <<>> THEN <<>> ELSE <<w>>)
    ELSE IF Head(s) = Space
         THEN (IF w = <<>> THEN <<>> ELSE <<w>>) \o SplitFrom(Tail(s), <<>>)
         ELSE SplitFrom(Tail(s), Append(w, Head(s)))

Split(s) == SplitFrom(s, <<>>)

\* ' '.join(tokens)
RECURSIVE Join(_)
Join(tokens) ==
    IF tokens = <<>> THEN <<>>
    ELSE IF Len(tokens) = 1 THEN tokens[1]
    ELSE tokens[1] \o <<Space>> \o Join(Tail(tokens))

\* token.replace('"', '""')
RECURSIVE DoubleQuotes(_)
DoubleQuotes(token) ==
    IF token = <<>> THEN <<>>
    ELSE (IF Head(token) = Quote THEN <<Quote, Quote>> ELSE <<Head(token)>>)
         \o DoubleQuotes(Tail(token))

\* No string taken for a quoted phrase.
NeverQuoted(s) == FALSE

\* s.startswith('"') and s.endswith('"')
StartsAndEndsWithQuote(s) == Len(s) > 0 /\ s[1] = Quote /\ s[Len(s)] = Quote

HasSpecialChar(token) == \E i \in 1..Len(token) : token[i] \in FTS5_SPECIAL_CHARS

\* The loop body of escape_fts_query.
EscapeToken(token) ==
    IF FTS5_KEYWORD(token) THEN token
    ELSE IF StartsAndEndsWithQuote(token) THEN token
    ELSE IF HasSpecialChar(token) THEN <<Quote>> \o DoubleQuotes(token) \o <<Quote>>
    ELSE token

escape_fts_query(q) ==
    IF StartsAndEndsWithQuote(q) THEN q
    ELSE LET tokens == Split(q)
         IN Join([i \in 1..Len(tokens) |-> EscapeToken(tokens[i])])

\* The FTS5 engine (SQLite fts5, unicode61 tokenizer) on MATCH ?.

IsWordChar(a) == a \notin ({Space, Quote} \cup FTS5_SPECIAL_CHARS)

\* unicode61: the terms of a text are its maximal runs of word characters.
RECURSIVE TokenizeFrom(_, _)
TokenizeFrom(s, w) ==
    IF s = <<>> THEN (IF w = <<>> THEN <<>> ELSE <<w>>)
    ELSE IF IsWordChar(Head(s))
         THEN TokenizeFrom(Tail(s), Append(w, Head(s)))
         ELSE (IF w = <<>> THEN <<>> ELSE <<w>>) \o TokenizeFrom(Tail(s), <<>>)

Tokenize(text) == TokenizeFrom(text, <<>>)

Lexeme(type, text) == [type |-> type, text |-> text]

\* The lexer of the query syntax: whitespace is skipped, a special
\* character is a syntax token, a double quote opens a string ("" inside
\* it is one quote) that must be closed, and a run of word characters is
\* a bareword, the operator NOT when it reads exactly NOT.
RECURSIVE LexFrom(_)
RECURSIVE LexString(_, _)
RECURSIVE LexBareword(_, _)
LexFrom(s) ==
    IF s = <<>> THEN <<>>
    ELSE IF Head(s) = Space THEN LexFrom(Tail(s))
    ELSE IF Head(s) \in FTS5_SPECIAL_CHARS
         THEN <<Lexeme("SYNTAX", <<Head(s)>>)>> \o LexFrom(Tail(s))
    ELSE IF Head(s) = Quote THEN LexString(Tail(s), <<>>)
    ELSE LexBareword(s, <<>>)

LexString(s, acc) ==
    IF s = <<>> THEN <<Lexeme("UNTERMINATED", acc)>>
    ELSE IF Head(s) = Quote
         THEN IF Len(s) >= 2 /\ s[2] = Quote
              THEN LexString(Tail(Tail(s)), Append(acc, Quote))
              ELSE <<Lexeme("STRING", acc)>> \o LexFrom(Tail(s))
         ELSE LexString(Tail(s), Append(acc, Head(s)))

LexBareword(s, acc) ==
    IF s # <<>> /\ IsWordChar(Head(s))
    THEN LexBareword(Tail(s), Append(acc, Head(s)))
    ELSE <<Lexeme(IF acc = <<"NOT">> THEN "NOT" ELSE "STRING", acc)>> \o LexFrom(s)

\* phrase ::= STRING STAR: a star after a string or bareword makes it a
\* prefix phrase; any other star stays a syntax token.
RECURSIVE FoldStars(_)
FoldStars(lexemes) ==
    IF lexemes = <<>> THEN <<>>
    ELSE IF /\ Len(lexemes) >= 2
            /\ lexemes[1].type = "STRING"
            /\ lexemes[2] = Lexeme("SYNTAX", <<"*">>)
         THEN <<Lexeme("PREFIX", lexemes[1].text)>> \o FoldStars(Tail(Tail(lexemes)))
         ELSE <<Head(lexemes)>> \o FoldStars(Tail(lexemes))

\* The terms of a phrase; the last term of a prefix phrase carries the star.
PhraseOf(lexeme) ==
    LET terms == Tokenize(lexeme.text)
    IN IF lexeme.type = "PREFIX" /\ terms # <<>>
       THEN [terms EXCEPT ![Len(terms)] = Append(@, "*")]
       ELSE terms

\* A term of a phrase matches a term of the text: equal, or, with the
\* star, a prefix of it.
TermMatches(q, d) ==
    IF q[Len(q)] = "*"
    THEN /\ Len(d) >= Len(q) - 1
         /\ \A k \in 1..(Len(q) - 1) : d[k] = q[k]
    ELSE q = d

\* The phrase lists between the NOT operators of a lexed query.
RECURSIVE NotOperands(_, _)
NotOperands(lexemes, phrases) ==
    IF lexemes = <<>> THEN <<phrases>>
    ELSE IF Head(lexemes).type = "NOT"
         THEN <<phrases>> \o NotOperands(Tail(lexemes), <<>>)
         ELSE NotOperands(Tail(lexemes), Append(phrases, PhraseOf(Head(lexemes))))

\* The query parses: it has a term, every string is closed, no syntax
\* character but a folded star stands outside a string (without a colon,
\* which the queries drawn below never hold, none starts a valid column
\* filter), and every NOT stands between two phrase lists.
QueryParses(lexemes) ==
    /\ lexemes # <<>>
    /\ \A i \in 1..Len(lexemes) : lexemes[i].type \in {"STRING", "PREFIX", "NOT"}
    /\ \A i \in 1..Len(NotOperands(lexemes, <<>>)) : NotOperands(lexemes, <<>>)[i] # <<>>

\* The terms of the phrase stand next to each other in the text.
PhraseMatches(phrase, terms) ==
    \E i \in 0..(Len(terms) - Len(phrase)) :
        \A k \in 1..Len(phrase) : TermMatches(phrase[k], terms[i + k])

\* A list of phrases is their conjunction; a phrase without terms is left
\* out, and a list of such phrases only is no expression at all.
IsNoExpression(phrases) == \A i \in 1..Len(phrases) : phrases[i] = <<>>

ListMatches(phrases, terms) ==
    \A i \in 1..Len(phrases) : phrases[i] = <<>> \/ PhraseMatches(phrases[i], terms)

\* a NOT b NOT c groups from the left; a missing right operand leaves the
\* left one, a missing left operand matches nothing.
ExprMatches(operands, terms) ==
    /\ ~IsNoExpression(operands[1])
    /\ ListMatches(operands[1], terms)
    /\ \A i \in 2..Len(operands) :
         IsNoExpression(operands[i]) \/ ~ListMatches(operands[i], terms)

\* SELECT ... WHERE index MATCH q over the entries of an index whose
\* indexed column is `column`.
Match(index, column, q) ==
    LET lexemes == FoldStars(LexFrom(q))
    IN IF QueryParses(lexemes)
       THEN [status |-> "ok",
             rows |-> {e \in index : ExprMatches(NotOperands(lexemes, <<>>),
                                                 Tokenize(e[column]))}]
       ELSE [status |-> "error", rows |-> {}]

\* LEFT JOIN page_numbers pn ON ... = pn.leaf_num: the book_page_number of
\* the leaf's row, NULL (no value) when the leaf has none.
LeftJoinPage(leaf) ==
    LET joined == {r \in page_numbers : r.leaf_num = leaf}
    IN IF joined = {} THEN <<>> ELSE <<(CHOOSE r \in joined : TRUE).book_page_number>>

\* row[1] or ''
OrBlank(column) == IF column = <<>> THEN "" ELSE column[1]

\* snippet(index, 0, '→', '←', '...', 32) on a text of fewer than 32
\* terms: the terms of the text, those inside an occurrence of a phrase of
\* the query's first operand between the markers.
Snippet(q, text) ==
    LET terms == Tokenize(text)
        phrases == NotOperands(FoldStars(LexFrom(q)), <<>>)[1]
        Inside(k) ==
            \E p \in DOMAIN phrases : \E i \in 0..(Len(terms) - Len(phrases[p])) :
                /\ phrases[p] # <<>>
                /\ i < k /\ k <= i + Len(phrases[p])
                /\ \A j \in 1..Len(phrases[p]) : TermMatches(phrases[p][j], terms[i + j])
    IN [k \in DOMAIN terms |-> [term |-> terms[k], marked |-> Inside(k)]]

\* The statement fails to prepare when a table it names does not exist.
Prepared(names, found) ==
    IF names \subseteq tables THEN found ELSE [status |-> "error", rows |-> {}]

\* search_pages: leaf is the page_id of the matching pages_fts row, page
\* the left-joined book page.
search_pages(q) ==
    LET found == Match(pages_fts, "page_text", q)
    IN Prepared({"pages_fts", "page_numbers"},
           [status |-> found.status,
            rows |-> {[leaf |-> e.page_id, rowid |-> e.rowid,
                       page |-> OrBlank(LeftJoinPage(e.page_id)),
                       snippet |-> Snippet(q, e.page_text)] : e \in found.rows}])

\* search_blocks: text_blocks_fts JOIN text_blocks ON tbf.rowid = tb.rowid;
\* leaf is the page_id of the joined row.
search_blocks(q) ==
    LET found == Match(text_blocks_fts, "text", q)
    IN Prepared({"text_blocks_fts", "text_blocks", "page_numbers"},
           [status |-> found.status,
            rows |-> {[leaf |-> r.page_id, rowid |-> r.rowid,
                       page |-> OrBlank(LeftJoinPage(r.page_id)),
                       snippet |-> Snippet(q, r.text)] :
                         r \in {t \in text_blocks : \E e \in found.rows : e.rowid = t.rowid}}])

DefaultLimit == 20

\* ORDER BY rank LIMIT ?: the result sets a limit can leave, whichever
\* rows rank first.
Limited(rows, limit) ==
    {kept \in SUBSET rows : Cardinality(kept) = Min({limit, Cardinality(rows)})}

\* The command, statement by statement.

SearchEnds(how) ==
    /\ pc' = "idle"
    /\ outcome' = [op |-> "search", result |-> how]
    /\ UNCHANGED <<cur, before>>

\* search-catalog -c catalog -q query [--raw] [--blocks]: click checks
\* that the catalog path exists, then the database is opened.
SearchCatalog ==
    /\ pc = "idle"
    /\ file
    /\ pc' = "s_metadata"
    /\ fts_query' = <<>>
    /\ results' = NoResults
    /\ UNCHANGED <<query, raw, use_blocks>>
    /\ UNCHANGED <<cur, outcome, before>>
    /\ UNCHANGED callVars
    /\ UNCHANGED catalogVars

\* metadata[0]['ia_identifier'] of the first document_metadata row; a
\* missing table, no row or no such column ends the command with an error.
SearchReadIdentifier ==
    /\ pc = "s_metadata"
    /\ IF /\ "document_metadata" \in tables
          /\ document_metadata # {}
          /\ meta_layout = "ia_identifier"
       THEN Goto("s_escape")
       ELSE SearchEnds("failed")
    /\ UNCHANGED <<searchVars, callVars>>
    /\ UNCHANGED catalogVars

\* fts_query = query if raw else escape_fts_query(query)
SearchEscape ==
    /\ pc = "s_escape"
    /\ fts_query' = IF raw THEN query ELSE escape_fts_query(query)
    /\ Goto("s_match")
    /\ UNCHANGED <<query, raw, use_blocks, results>>
    /\ UNCHANGED callVars
    /\ UNCHANGED catalogVars

\* search_blocks or search_pages, then the results are written; an error
\* of the engine ends the command with an error.
SearchMatch ==
    /\ pc = "s_match"
    /\ LET found == IF use_blocks THEN search_blocks(fts_query) ELSE search_pages(fts_query)
       IN /\ \E kept \in Limited(found.rows, DefaultLimit) :
               results' = [status |-> found.status, rows |-> kept]
          /\ SearchEnds(IF found.status = "ok" THEN "ok" ELSE "failed")
    /\ UNCHANGED <<query, raw, use_blocks, fts_query>>
    /\ UNCHANGED callVars
    /\ UNCHANGED catalogVars

\* The corpus searched: leaf 1 holds self-adjusting, leaf 2 holds self and
\* adjusting with a word between them.
CorpusBlocks ==
    << Block(1, 0, "b1", <<"self", "-", "adjusting">>),
       Block(2, 0, "b2", <<"self">>),
       Block(2, 1, "b3", <<"valve">>),
       Block(2, 2, "b4", <<"adjusting">>) >>

\* The catalog of the corpus as create_catalog_database writes it
\* (document_metadata as key and value rows) and as the single-file
\* ia-utils.py writes it (one row with an ia_identifier column).
SearchCatalogs ==
    {BuiltCatalog([mode |-> "hocr", blocks |-> CorpusBlocks, pages |-> {}],
                  [metadata |-> Metadata1, files |-> Files2, page_numbers |-> PageNumbers2],
                  layout) : layout \in {"key_value", "ia_identifier"}}

\* Terms of the queries typed: plain, hyphenated, quoted, half quoted, the
\* operator, and nothing (an extra blank).
QueryTerms ==
    { <<>>,
      <<"self">>,
      <<"adjusting">>,
      <<"NOT">>,
      <<"self", "-", "adjusting">>,
      <<Quote, "self", "-", "adjusting", Quote>>,
      <<Quote, "valve", Quote>>,
      <<Quote, "self", "-", "adjusting">>,
      <<"valve", Quote>> }

MaxTerms == 3

RECURSIVE TermLists(_)
TermLists(n) ==
    IF n = 0 THEN {<<>>}
    ELSE TermLists(n - 1) \cup
         {Append(l, t) : l \in {k \in TermLists(n - 1) : Len(k) = n - 1}, t \in QueryTerms}

Queries == {Join(l) : l \in TermLists(MaxTerms)}

InitSearch ==
    /\ \E c \in SearchCatalogs : CatalogIs(c)
    /\ before = NoCatalog
    /\ pc = "idle"
    /\ cur = NoCommand
    /\ outcome = NoOutcome
    /\ query \in Queries
    /\ raw \in BOOLEAN
    /\ use_blocks \in BOOLEAN
    /\ fts_query = <<>>
    /\ results = NoResults
    /\ NoCall

NextSearch ==
    \/ SearchCatalog
    \/ SearchReadIdentifier
    \/ SearchEscape
    \/ SearchMatch

SpecSearch == InitSearch /\ [][NextSearch]_vars

\* The corpus of the wildcard searches: leaf 1 holds anatomy, leaf 2 holds
\* anat, leaf 3 holds valve ("anat" and "omy" side by side are one word).
WildcardBlocks ==
    << Block(1, 0, "b1", <<"anat", "omy">>),
       Block(2, 0, "b2", <<"anat">>),
       Block(3, 0, "b3", <<"valve">>) >>

WildcardCatalogs ==
    {BuiltCatalog([mode |-> "hocr", blocks |-> WildcardBlocks, pages |-> {}],
                  [metadata |-> Metadata1, files |-> Files2, page_numbers |-> PageNumbers2],
                  layout) : layout \in {"key_value", "ia_identifier"}}

\* Terms of the wildcard queries typed.
WildcardTerms ==
    { <<"anat", "*">>,
      <<"anat">>,
      <<"anat", "omy">>,
      <<Quote, "anat", Quote, "*">>,
      <<"valve">>,
      <<"*">>,
      <<"NOT">> }

RECURSIVE WildcardTermLists(_)
WildcardTermLists(n) ==
    IF n = 0 THEN {<<>>}
    ELSE WildcardTermLists(n - 1) \cup
         {Append(l, t) : l \in {k \in WildcardTermLists(n - 1) : Len(k) = n - 1},
                         t \in WildcardTerms}

WildcardQueries == {Join(l) : l \in WildcardTermLists(MaxTerms)}

InitWildcard ==
    /\ \E c \in WildcardCatalogs : CatalogIs(c)
    /\ before = NoCatalog
    /\ pc = "idle"
    /\ cur = NoCommand
    /\ outcome = NoOutcome
    /\ query \in WildcardQueries
    /\ raw \in BOOLEAN
    /\ use_blocks \in BOOLEAN
    /\ fts_query = <<>>
    /\ results = NoResults
    /\ NoCall

SpecWildcard == InitWildcard /\ [][NextSearch]_vars

----------------------------------------------------------------------------
(* The OCR parsers (core/parser.py).  Text is a sequence of characters;    *)
(* an optional value is the empty sequence (None) or a one-element one.    *)

Newline == "\n"

\* The characters str.strip() removes.
IsWhitespace(c) == c \in {Space, Newline}

RECURSIVE StripLeft(_)
StripLeft(s) ==
    IF s = <<>> THEN <<>>
    ELSE IF IsWhitespace(Head(s)) THEN StripLeft(Tail(s))
    ELSE s

RECURSIVE StripRight(_)
StripRight(s) ==
    IF s = <<>> THEN <<>>
    ELSE IF IsWhitespace(s[Len(s)]) THEN StripRight(SubSeq(s, 1, Len(s) - 1))
    ELSE s

\* The string as it is, its leading and trailing whitespace kept.
KeepWhitespace(s) == s

\* str.strip()
Strip(s) == StripRight(StripLeft(s))

\* Where a slice bound lands in a string of length n: negative bounds count
\* from the end, and bounds outside the string are clamped.
SliceBound(k, n) == IF k < 0 THEN Max({k + n, 0}) ELSE Min({k, n})

\* The same with the end bound taken as the last character's own index.
SliceClosed(s, lo, hi) ==
    SubSeq(s, SliceBound(lo, Len(s)) + 1, SliceBound(hi + 1, Len(s)))

\* s[lo:hi]: the characters at the 0-based positions lo .. hi-1.
Slice(s, lo, hi) ==
    SubSeq(s, SliceBound(lo, Len(s)) + 1, SliceBound(hi, Len(s)))

\* s.split('\n'): the pieces between the newlines, empty pieces included.
RECURSIVE SplitLinesFrom(_, _)
SplitLinesFrom(s, line) ==
    IF s = <<>> THEN <<line>>
    ELSE IF Head(s) = Newline THEN <<line>> \o SplitLinesFrom(Tail(s), <<>>)
    ELSE SplitLinesFrom(Tail(s), Append(line, Head(s)))

SplitLines(s) == SplitLinesFrom(s, <<>>)

NoValue == <<>>

\* A Text Block as a parser returns it.  src is not a field of the
\* dictionary: it records which element of the input the block was read
\* from (page position, position within the page in document order).
TextBlock(p, n, h, t, bbox, conf, fsize, src) ==
    [page_id |-> p, block_number |-> n, hocr_id |-> h, text |-> t, bbox |-> bbox,
     avg_confidence |-> conf, avg_font_size |-> fsize, src |-> src]

Returned(blocks, page_records) ==
    [status |-> "ok", error |-> "", blocks |-> blocks, pages |-> page_records]

Raised(error) == [status |-> "error", error |-> error, blocks |-> <<>>, pages |-> <<>>]

\* The blocks of one page of the searchtext: one per line of the page's
\* slice that is not empty after strip(), numbered by the line's position.
RECURSIVE LineBlocks(_, _, _)
LineBlocks(page_id, lines, block_number) ==
    IF block_number >= Len(lines) THEN <<>>
    ELSE LET text == Strip(lines[block_number + 1])
         IN (IF text # <<>>
             THEN <<TextBlock(page_id, block_number, "", text, NoValue, NoValue, NoValue,
                              <<page_id, block_number>>)>>
             ELSE <<>>)
            \o LineBlocks(page_id, lines, block_number + 1)

PageRecord(page_id, entry) ==
    [page_id |-> page_id, char_start |-> entry[1], char_end |-> entry[2],
     hocr_byte_start |-> entry[3], hocr_byte_end |-> entry[4]]

\* The loop of blocks_from_searchtext from page page_id on; unpacking an
\* entry that is not a 4-tuple raises ValueError and ends the call.
RECURSIVE SearchtextLoop(_, _, _, _, _)
SearchtextLoop(searchtext_content, pageindex, page_id, blocks_list, page_records) ==
    IF page_id >= Len(pageindex) THEN Returned(blocks_list, page_records)
    ELSE LET entry == pageindex[page_id + 1]
         IN IF Len(entry) # 4 THEN Raised("ValueError")
            ELSE LET page_text == Slice(searchtext_content, entry[1], entry[2])
                 IN SearchtextLoop(searchtext_content, pageindex, page_id + 1,
                                   blocks_list \o LineBlocks(page_id, SplitLines(page_text), 0),
                                   Append(page_records, PageRecord(page_id, entry)))

blocks_from_searchtext(searchtext_content, pageindex) ==
    SearchtextLoop(searchtext_content, pageindex, 0, <<>>, <<>>)

\* An hOCR word element: its text and the x_wconf / x_fsize numbers of its
\* title attribute, each present or not.
Word(text, wconf, fsize) == [text |-> text, wconf |-> wconf, fsize |-> fsize]

\* An hOCR block element: class, id attribute ("" when it has none), the
\* bbox of its title attribute (NoValue when it has none) and its words.
Element(class, id, bbox, words) == [class |-> class, id |-> id, bbox |-> bbox, words |-> words]

\* bbox (\d+) (\d+) (\d+) (\d+) in the title, else four None.
parse_bbox(element) == element.bbox

\* A word without x_wconf counted as confidence 0.
MissingAsZero(word) == IF word.wconf = NoValue THEN <<0>> ELSE word.wconf

\* x_wconf (\d+) in the word's title, else None.
parse_confidence(word) == word.wconf

\* x_fsize (\d+) in the word's title, else None.
parse_font_size(word) == word.fsize

\* ' '.join(word.get_text(strip=True) for word in words)
extract_plain_text(block) == Join([k \in DOMAIN block.words |-> Strip(block.words[k].text)])

\* (bbox[1] or 0, bbox[0] or 0)
get_position(block) ==
    LET bbox == parse_bbox(block)
    IN IF bbox = NoValue THEN <<0, 0>> ELSE <<bbox[2], bbox[1]>>

\* Tuple comparison of two positions.
PositionLess(a, b) == a[1] < b[1] \/ (a[1] = b[1] /\ a[2] < b[2])

\* sorted(blocks, key=get_position): stable, so blocks of equal position
\* keep the order of the list they came in.
RECURSIVE sort_blocks_by_position(_)
sort_blocks_by_position(blocks) ==
    IF blocks = <<>> THEN <<>>
    ELSE LET first == CHOOSE i \in DOMAIN blocks :
                          /\ \A j \in DOMAIN blocks :
                                 ~PositionLess(get_position(blocks[j].element),
                                               get_position(blocks[i].element))
                          /\ \A j \in 1..(i - 1) :
                                 get_position(blocks[j].element) # get_position(blocks[i].element)
             rest == [k \in 1..(Len(blocks) - 1) |-> IF k < first THEN blocks[k] ELSE blocks[k + 1]]
         IN <<blocks[first]>> \o sort_blocks_by_position(rest)

\* page_(\d+) in the page element's id attribute, else 0.
extract_page_id(page) ==
    IF Len(page.id) = 2 /\ page.id[1] = "page_" THEN page.id[2] ELSE 0

\* The elements of a page, each tagged with its document position.
Tagged(page) == [k \in DOMAIN page.elements |-> [element |-> page.elements[k], at |-> k]]

\* page.find_all(class_=class): the page's elements of the class, in
\* document order.
find_all(tagged, class) == SelectSeq(tagged, LAMBDA e : e.element.class = class)

\* The elements of the page in one document-order pass.
DocumentOrder(tagged) ==
    SelectSeq(tagged, LAMBDA e : e.element.class \in
                  {"ocr_par", "ocr_caption", "ocr_header", "ocr_textfloat"})

\* The four find_all results of parse_hocr, concatenated.
PageBlocks(tagged) ==
    find_all(tagged, "ocr_par") \o find_all(tagged, "ocr_caption")
        \o find_all(tagged, "ocr_header") \o find_all(tagged, "ocr_textfloat")

RECURSIVE Sum(_)
Sum(values) == IF values = <<>> THEN 0 ELSE Head(values) + Sum(Tail(values))

\* statistics.mean of a non-empty list of integers, as the exact fraction
\* <<sum, count>>; the caller returns None for an empty list.
mean(values) == IF values = <<>> THEN NoValue ELSE <<Sum(values), Len(values)>>

\* The values that are not None, in order.
RECURSIVE Present(_)
Present(optionals) ==
    IF optionals = <<>> THEN <<>>
    ELSE Head(optionals) \o Present(Tail(optionals))

\* The dictionaries parse_hocr appends for the sorted blocks of one page
\* from position block_number on; a block whose text strips to nothing is
\* skipped but keeps its number.
RECURSIVE HocrBlocks(_, _, _, _)
HocrBlocks(page_id, page_idx, blocks, block_number) ==
    IF block_number >= Len(blocks) THEN <<>>
    ELSE LET block == blocks[block_number + 1].element
             text == extract_plain_text(block)
             confidences == Present([k \in DOMAIN block.words |-> parse_confidence(block.words[k])])
             font_sizes == Present([k \in DOMAIN block.words |-> parse_font_size(block.words[k])])
         IN (IF Strip(text) = <<>> THEN <<>>
             ELSE <<TextBlock(page_id, block_number, block.id, text, parse_bbox(block),
                              mean(confidences), mean(font_sizes),
                              <<page_idx, blocks[block_number + 1].at>>)>>)
            \o HocrBlocks(page_id, page_idx, blocks, block_number + 1)

RECURSIVE HocrPages(_, _)
HocrPages(page_elements, page_idx) ==
    IF page_idx > Len(page_elements) THEN <<>>
    ELSE LET page == page_elements[page_idx]
             blocks == sort_blocks_by_position(PageBlocks(Tagged(page)))
         IN HocrBlocks(extract_page_id(page), page_idx, blocks, 0)
            \o HocrPages(page_elements, page_idx + 1)

\* BeautifulSoup(hocr_content, 'xml') builds its tree with lxml's
\* recovering parser: markup that breaks off yields the tree of the part
\* that could be read, and no error.
BeautifulSoup(hocr) == hocr.pages

parse_hocr(hocr) == Returned(HocrPages(BeautifulSoup(hocr), 1), <<>>)

\* A DjVu WORD element: its text (NoValue for an element without text) and
\* its x-confidence attribute, absent, a number or other text.
DjvuWord(text, kind, value) == [text |-> text, kind |-> kind, value |-> value]

\* f"{n:06d}" for the numbers below 100.
Pad6(n) == IF n < 10 THEN "00000" \o ToString(n) ELSE "0000" \o ToString(n)

\* int(conf) for the attribute values that are not empty; ValueError is
\* swallowed.
DjvuConfidence(word) == IF word.kind = "int" THEN <<word.value>> ELSE NoValue

\* The words of a PARAGRAPH whose text is not empty.
WordsWithText(para) == SelectSeq(para, LAMBDA w : w.text # <<>>)

\* The dictionaries parse_djvu_xml appends for the PARAGRAPHs of one OBJECT
\* from the k-th on; block_number counts the appended ones only.
RECURSIVE DjvuBlocks(_, _, _, _)
DjvuBlocks(page_id, paragraphs, k, block_number) ==
    IF k > Len(paragraphs) THEN <<>>
    ELSE LET words == WordsWithText(paragraphs[k])
             text == Join([i \in DOMAIN words |-> words[i].text])
             confidences == Present([i \in DOMAIN words |-> DjvuConfidence(words[i])])
         IN IF words = <<>> \/ Strip(text) = <<>>
            THEN DjvuBlocks(page_id, paragraphs, k + 1, block_number)
            ELSE <<TextBlock(page_id, block_number,
                             "par_" \o Pad6(page_id) \o "_" \o Pad6(block_number), text,
                             NoValue, mean(confidences), NoValue, <<page_id + 1, k>>)>>
                 \o DjvuBlocks(page_id, paragraphs, k + 1, block_number + 1)

RECURSIVE DjvuObjects(_, _)
DjvuObjects(objects, page_id) ==
    IF page_id >= Len(objects) THEN <<>>
    ELSE DjvuBlocks(page_id, objects[page_id + 1], 1, 0) \o DjvuObjects(objects, page_id + 1)

\* etree.iterparse raises XMLSyntaxError where the markup breaks off, and
\* the blocks collected so far are dropped with the call.
parse_djvu_xml(djvu) ==
    IF djvu.truncated THEN Raised("XMLSyntaxError")
    ELSE Returned(DjvuObjects(djvu.objects, 0), <<>>)

\* The sequences of at most n members of S.
SeqsUpTo(S, n) == UNION {[1..k -> S] : k \in 0..n}

MaxBlocks == 2

MaxTextLen == 3

WordsRated == <<Word(<<"a">>, <<91>>, <<10>>), Word(<<"b">>, <<87>>, NoValue),
                Word(<<"c">>, NoValue, NoValue)>>
WordsUnrated == <<Word(<<"a">>, NoValue, NoValue)>>
WordsBlank == <<Word(<<Space>>, <<50>>, NoValue), Word(<<>>, NoValue, NoValue)>>
WordsUneven == <<Word(<<Space, "a">>, <<1>>, <<7>>), Word(<<"b">>, <<2>>, <<8>>)>>

BoxTop == <<0, 0, 9, 9>>
BoxBelow == <<5, 20, 9, 29>>

\* Block elements of an hOCR page.
Elements ==
    {Element(class, id, bbox, words) :
        class \in {"ocr_par", "ocr_caption"}, id \in {"", "p1"},
        bbox \in {NoValue, BoxTop, BoxBelow}, words \in {WordsRated, WordsBlank}}

HocrPage(id, elements) == [id |-> id, elements |-> elements]

HocrPageIds == {<<>>, <<"page_", 1>>}

\* hOCR files: one page of up to MaxBlocks block elements, and some
\* two-page files, each whole or broken off after the part listed.
HocrFiles ==
    {[kind |-> "hocr", pages |-> <<HocrPage(id, elements)>>, truncated |-> t] :
        id \in HocrPageIds, elements \in SeqsUpTo(Elements, MaxBlocks), t \in BOOLEAN}
    \cup
    {[kind |-> "hocr",
      pages |-> <<HocrPage(<<"page_", 0>>, <<Element("ocr_header", "h1", BoxBelow, w1)>>),
                  HocrPage(id, <<Element("ocr_textfloat", "h1", NoValue, w2),
                                 Element("ocr_line", "l1", BoxTop, WordsRated)>>)>>,
      truncated |-> t] :
        id \in HocrPageIds, w1 \in {WordsUnrated, WordsUneven},
        w2 \in {WordsUnrated, WordsUneven, WordsBlank}, t \in BOOLEAN}

PageIndexEntry(char_start, char_end) == <<char_start, char_end, 0, 0>>

HelloWorld ==
    <<"h", "e", "l", "l", "o", Space, "w", "o", "r", "l", "d", Newline,
      "f", "o", "o", Space, "b", "a", "r", Space, "b", "a", "z">>

HelloWorldIndex == <<<<0, 10, 0, 50>>, <<10, 25, 50, 140>>>>

\* searchtext / pageindex pairs: short texts of letters, spaces and
\* newlines under page indexes that cover, overlap or overrun them, one of
\* them with an entry that is not a 4-tuple.
SearchtextFiles ==
    {[kind |-> "searchtext", text |-> text, pageindex |-> pageindex] :
        text \in SeqsUpTo({"a", Space, Newline}, MaxTextLen) \cup {HelloWorld},
        pageindex \in {<<>>,
                       <<PageIndexEntry(0, 2)>>,
                       <<PageIndexEntry(0, 2), PageIndexEntry(2, 4)>>,
                       <<PageIndexEntry(1, 3), PageIndexEntry(0, 4)>>,
                       <<PageIndexEntry(0, 2), <<2, 4>>>>,
                       HelloWorldIndex}}

Paragraphs ==
    { <<DjvuWord(<<"a">>, "int", 91), DjvuWord(<<"b">>, "text", 0)>>,
      <<DjvuWord(<<Space>>, "absent", 0)>>,
      <<DjvuWord(<<>>, "int", 5)>>,
      <<DjvuWord(<<"c">>, "absent", 0)>> }

\* DjVu XML files: up to two OBJECTs of up to MaxBlocks PARAGRAPHs, whole
\* or broken off.
DjvuFiles ==
    {[kind |-> "djvu", objects |-> objects, truncated |-> t] :
        objects \in SeqsUpTo(SeqsUpTo(Paragraphs, MaxBlocks), 2), t \in BOOLEAN}

\* download_hocr_mode: parser.parse_hocr(hocr_bytes).
ParseHocr ==
    /\ pc = "idle" /\ input = NoInput
    /\ \E hocr \in HocrFiles :
         /\ input' = hocr
         /\ output' = parse_hocr(hocr)
    /\ pc' = "parsed"
    /\ UNCHANGED <<catalogVars, cur, outcome, before, searchVars>>

\* download_fast_mode: parser.blocks_from_searchtext(searchtext_content, pageindex).
BlocksFromSearchtext ==
    /\ pc = "idle" /\ input = NoInput
    /\ \E st \in SearchtextFiles :
         /\ input' = st
         /\ output' = blocks_from_searchtext(st.text, st.pageindex)
    /\ pc' = "parsed"
    /\ UNCHANGED <<catalogVars, cur, outcome, before, searchVars>>

\* download_djvu_mode: parser.parse_djvu_xml(djvu_bytes).
ParseDjvuXml ==
    /\ pc = "idle" /\ input = NoInput
    /\ \E djvu \in DjvuFiles :
         /\ input' = djvu
         /\ output' = parse_djvu_xml(djvu)
    /\ pc' = "parsed"
    /\ UNCHANGED <<catalogVars, cur, outcome, before, searchVars>>

\* The columns of a returned block that the store keeps in this model.
StoredBlocks(blocks) ==
    [k \in DOMAIN blocks |->
        Block(blocks[k].page_id, blocks[k].block_number, blocks[k].hocr_id, blocks[k].text)]

\* create_catalog_database: the insert_all of the returned blocks into
\* text_blocks, keyed by mode.
StoreTextBlocks ==
    /\ pc = "parsed" /\ output.status = "ok"
    /\ SetCatalog(InsertTextBlocks([Catalog EXCEPT !.file = TRUE],
                                   StoredBlocks(output.blocks), PkOf(input.kind)))
    /\ pc' = "stored"
    /\ UNCHANGED <<cur, outcome, before, searchVars, callVars>>

\* The parser's exception leaves create-catalog before any database call.
ParserRaises ==
    /\ pc = "parsed" /\ output.status = "error"
    /\ pc' = "idle"
    /\ outcome' = [op |-> "create", result |-> "failed"]
    /\ UNCHANGED <<catalogVars, cur, before, searchVars, callVars>>

InitParse ==
    /\ CatalogIs(NoCatalog)
    /\ before = NoCatalog
    /\ pc = "idle"
    /\ cur = NoCommand
    /\ outcome = NoOutcome
    /\ NoSearch
    /\ NoCall

NextParse ==
    \/ ParseHocr
    \/ BlocksFromSearchtext
    \/ ParseDjvuXml
    \/ StoreTextBlocks
    \/ ParserRaises

SpecParse == InitParse /\ [][NextParse]_vars

----------------------------------------------------------------------------
(* Book page to leaf resolution (utils/pages.py) under a batch caller.     *)

\* A page_num argument: an int, as the commands pass it, or a string.
IntPage(n) == [type |-> "int", number |-> n, text |-> ""]
StrPage(s) == [type |-> "str", number |-> 0, text |-> s]

\* str(page_num): the decimal digits of an int, a string as it is.
Str(page_num) == IF page_num.type = "int" THEN ToString(page_num.number) ELSE page_num.text

\* The result of get_leaf_num: the value returned or the message of the
\* ValueError raised, and whether the call went to the archive.
LeafFound(leaf, fetched) ==
    [status |-> "ok", leaf |-> <<leaf>>, raised |-> "", message |-> "", fetched |-> fetched]

Unconverted(page_num) ==
    [status |-> "ok", leaf |-> <<page_num>>, raised |-> "", message |-> "", fetched |-> FALSE]

LookupError(message, fetched) ==
    [status |-> "error", leaf |-> NoValue, raised |-> "ValueError", message |-> message,
     fetched |-> fetched]

\* except Exception as e: raise ValueError(f"Could not look up book page '{page_num}': {e}")
Wrapped(message) == "Could not look up book page: " \o message

\* The leaf of the last matching row.
SelectLastLeaf(rows, key) ==
    LET matching == {r \in rows : r.book_page_number = key}
    IN IF matching = {} THEN NoValue ELSE <<Max({r.leaf_num : r \in matching})>>

\* SELECT leaf_num FROM page_numbers WHERE book_page_number = ? and
\* fetchone(): the first matching row; leaf_num is the rowid, and both the
\* table and idx_book_page are walked in rowid order among equal keys.
SelectLeaf(rows, key) ==
    LET matching == {r \in rows : r.book_page_number = key}
    IN IF matching = {} THEN NoValue ELSE <<Min({r.leaf_num : r \in matching})>>

\* The loop over page_data['pages']: the leafNum of the first entry whose
\* pageNumber equals the key.
FirstEntry(entries, key) ==
    LET at == {k \in DOMAIN entries : entries[k].pageNumber = key}
    IN IF at = {} THEN NoValue ELSE <<entries[Min(at)].leafNum>>

\* ia_client.download_json(ia_id, f"{ia_id}_page_numbers.json"): None when
\* the download fails, else the parsed document.
download_json(archive) == archive

\* get_leaf_num(page_num, page_type, ia_id, db).  db is a catalog handle
\* or None, ia_id an identifier or None; has_table and rows describe the
\* catalog behind the handle, archive what the item serves.
get_leaf_num(page_num, page_type, ia_id, db, has_table, rows, archive) ==
    IF page_type = "leaf" THEN Unconverted(page_num)
    ELSE IF page_type = "book" THEN
        IF db THEN
            IF ~has_table THEN LookupError(Wrapped("no such table: page_numbers"), FALSE)
            ELSE LET result == SelectLeaf(rows, Str(page_num))
                 IN IF result # NoValue THEN LeafFound(result[1], FALSE)
                    ELSE LookupError(Wrapped("Book page not found in page_numbers table"), FALSE)
        ELSE IF ia_id THEN
            LET page_data == download_json(archive)
                found == IF page_data.kind = "pages"
                         THEN FirstEntry(page_data.pages, Str(page_num)) ELSE NoValue
            IN IF found # NoValue THEN LeafFound(found[1], TRUE)
               ELSE LookupError(Wrapped("Book page not found in page_numbers.json"), TRUE)
        ELSE LookupError("Book page lookup requires either index database or IA ID", FALSE)
    ELSE LookupError("Unknown page_type", FALSE)

MaxBatch == 2

ResolverLeaves == {0, 5}

BookPages == {"", "42", "i"}

\* page_numbers tables a build can leave: at most one row per leaf, the
\* book page a string that may be empty, non-numeric or repeated.
PageNumberTables ==
    UNION {{ {[leaf_num |-> l, book_page_number |-> f[l]] : l \in S} : f \in [S -> BookPages]}
              : S \in SUBSET ResolverLeaves}

\* What <ia_id>_page_numbers.json can be on the archive.
Archives ==
    { [kind |-> "none", pages |-> <<>>],
      [kind |-> "no_pages", pages |-> <<>>],
      [kind |-> "pages", pages |-> <<[leafNum |-> 5, pageNumber |-> "42"]>>],
      [kind |-> "pages", pages |-> <<[leafNum |-> 1, pageNumber |-> ""],
                                     [leafNum |-> 0, pageNumber |-> ""],
                                     [leafNum |-> 7, pageNumber |-> "i"]>>] }

PageArguments == {StrPage(p) : p \in BookPages} \cup {IntPage(42), IntPage(999)}

\* The catalogs a command can be pointed at with -i: a file without a
\* page_numbers table, or one with such a table.
ResolverCatalogs ==
    {[NoCatalog EXCEPT !.file = TRUE]}
    \cup {[NoCatalog EXCEPT !.file = TRUE, !.tables = {"page_numbers"}, !.page_numbers = rows]
              : rows \in PageNumberTables}

NoBatch == [status |-> "none", results |-> <<>>]

\* get-pages -b ...: the book pages asked for, with or without an index
\* database and an identifier.
InitResolve ==
    /\ \E c \in ResolverCatalogs : CatalogIs(c)
    /\ before = NoCatalog
    /\ pc = "idle"
    /\ cur = NoCommand
    /\ outcome = NoOutcome
    /\ NoSearch
    /\ \E batch \in SeqsUpTo(PageArguments, MaxBatch) \ {<<>>}, db \in BOOLEAN,
          ia_id \in BOOLEAN, archive \in Archives, page_type \in {"book", "leaf"} :
         input = [kind |-> "get-pages", batch |-> batch, page_type |-> page_type,
                  db |-> db, ia_id |-> ia_id, archive |-> archive]
    /\ output = NoBatch

\* The command starts converting its page numbers.
StartBatch ==
    /\ pc = "idle" /\ output.status = "none"
    /\ pc' = "resolving"
    /\ before' = Catalog
    /\ output' = [status |-> "running", results |-> <<>>]
    /\ UNCHANGED <<catalogVars, cur, outcome, searchVars, input>>

\* One turn of the loop: get_leaf_num for the next page; a ValueError is
\* logged and the loop goes on with the page after it.
ResolvePage ==
    /\ pc = "resolving"
    /\ Len(output.results) < Len(input.batch)
    /\ LET page_num == input.batch[Len(output.results) + 1]
           result == get_leaf_num(page_num, input.page_type, input.ia_id, input.db,
                                  "page_numbers" \in tables, page_numbers, input.archive)
       IN output' = [output EXCEPT !.results = Append(@, result)]
    /\ UNCHANGED <<catalogVars, pc, cur, outcome, before, searchVars, input>>

\* The loop is through; the pages that resolved go on to the download.
EndBatch ==
    /\ pc = "resolving"
    /\ Len(output.results) = Len(input.batch)
    /\ pc' = "idle"
    /\ output' = [output EXCEPT !.status = "done"]
    /\ outcome' = [op |-> "get-pages",
                   result |-> IF \E k \in DOMAIN output.results : output.results[k].status = "ok"
                              THEN "ok" ELSE "failed"]
    /\ UNCHANGED <<catalogVars, cur, before, searchVars, input>>

NextResolve ==
    \/ StartBatch
    \/ ResolvePage
    \/ EndBatch

SpecResolve == InitResolve /\ [][NextResolve]_vars

----------------------------------------------------------------------------
(* What a search and a text lookup report: search_pages, search_blocks and *)
(* get_page_text called on a catalog, with a result limit.                 *)

\* get_page_text: for each leaf the text of its blocks and the book page
\* of its page_numbers row ('' without one); the first statement on a
\* missing table raises.
get_page_text(leaf_nums) ==
    IF leaf_nums = <<>> THEN [status |-> "ok", rows |-> {}, texts |-> <<>>]
    ELSE IF ~({"text_blocks", "page_numbers"} \subseteq tables)
    THEN [status |-> "error", rows |-> {}, texts |-> <<>>]
    ELSE [status |-> "ok", rows |-> {},
          texts |-> [k \in DOMAIN leaf_nums |->
                        [leaf |-> leaf_nums[k],
                         page |-> OrBlank(LeftJoinPage(leaf_nums[k])),
                         text |-> GetPageText(text_blocks, leaf_nums[k])]]]

\* A book with the femur on leaves 3 (two blocks) and 7 and not on leaf 5.
ReportBlocks ==
    << Block(3, 0, "r1", <<"the", " ", "femur">>),
       Block(3, 1, "r2", <<"femur">>),
       Block(5, 0, "r3", <<"tibia">>),
       Block(7, 0, "r4", <<"a", " ", "femur", " ", "bone">>) >>

\* The mapping resource of the book: none, one without leaf 7 and with an
\* unnumbered leaf 5, one for every leaf.
ReportPageNumbers ==
    { NoPageNumbers,
      [present |-> TRUE, pages |-> << [leafNum |-> 3, pageNumber |-> "42"],
                                      [leafNum |-> 5, pageNumber |-> ""] >>],
      [present |-> TRUE, pages |-> << [leafNum |-> 3, pageNumber |-> "42"],
                                      [leafNum |-> 5, pageNumber |-> "43"],
                                      [leafNum |-> 7, pageNumber |-> "vii"] >>] }

ReportCatalogs ==
    {BuiltCatalog([mode |-> "hocr", blocks |-> ReportBlocks, pages |-> {}],
                  [metadata |-> Metadata1, files |-> Files2, page_numbers |-> numbers],
                  "key_value") : numbers \in ReportPageNumbers}

\* The queries handed to the search functions.
ReportQueries ==
    { <<"femur">>, <<"tibia">>, <<"patella">>,
      <<Quote, "the", " ", "femur", Quote>>,
      <<"femur", " ", "NOT", " ", "bone">>,
      <<"femur", " ", "OR", " ", "tibia">>,
      <<"femur", " ", "AND">> }

ReportLimits == {1, 2, DefaultLimit}
ReportLeaves == {3, 5, 7, 9}

NoReport == [status |-> "none", rows |-> {}, texts |-> <<>>]

InitReport ==
    /\ \E c \in ReportCatalogs : CatalogIs(c)
    /\ before = NoCatalog
    /\ pc = "idle"
    /\ cur = NoCommand
    /\ outcome = NoOutcome
    /\ NoSearch
    /\ \/ \E kind \in {"search_pages", "search_blocks"}, q \in ReportQueries,
             limit \in ReportLimits :
            input = [kind |-> kind, query |-> q, limit |-> limit, leaf_nums |-> <<>>]
       \/ \E leaf_nums \in SeqsUpTo(ReportLeaves, MaxBatch) :
            input = [kind |-> "get_page_text", query |-> <<>>, limit |-> 0,
                     leaf_nums |-> leaf_nums]
    /\ output = NoReport

\* search_pages(db, query, limit)
ReportSearchPages ==
    /\ input.kind = "search_pages" /\ output.status = "none"
    /\ LET found == search_pages(input.query)
       IN \E kept \in Limited(found.rows, input.limit) :
            output' = [status |-> found.status, rows |-> kept, texts |-> <<>>]
    /\ UNCHANGED <<catalogVars, pc, cur, outcome, before, searchVars, input>>

\* search_blocks(db, query, limit)
ReportSearchBlocks ==
    /\ input.kind = "search_blocks" /\ output.status = "none"
    /\ LET found == search_blocks(input.query)
       IN \E kept \in Limited(found.rows, input.limit) :
            output' = [status |-> found.status, rows |-> kept, texts |-> <<>>]
    /\ UNCHANGED <<catalogVars, pc, cur, outcome, before, searchVars, input>>

\* get_page_text(db, leaf_nums, ia_id)
ReportPageText ==
    /\ input.kind = "get_page_text" /\ output.status = "none"
    /\ output' = get_page_text(input.leaf_nums)
    /\ UNCHANGED <<catalogVars, pc, cur, outcome, before, searchVars, input>>

NextReport ==
    \/ ReportSearchPages
    \/ ReportSearchBlocks
    \/ ReportPageText

SpecReport == InitReport /\ [][NextReport]_vars

----------------------------------------------------------------------------
(* get-pages: the batch download of individual page files addressed by     *)
(* book page, in parallel or (size original) one page after the other.     *)

\* The page numbers of a -r range, ascending.
RECURSIVE Ascending(_)
Ascending(S) ==
    IF S = {} THEN <<>>
    ELSE LET least == CHOOSE x \in S : \A y \in S : x <= y
         IN <<least>> \o Ascending(S \ {least})

DownloadPages == {42, 43, 999}

\* The page_numbers table behind -i: none, or book pages 42 and 43 on
\* leaves 5 and 6.
DownloadCatalogs ==
    { [NoCatalog EXCEPT !.file = TRUE],
      [NoCatalog EXCEPT !.file = TRUE, !.tables = {"page_numbers"}],
      [NoCatalog EXCEPT !.file = TRUE, !.tables = {"page_numbers"},
                        !.page_numbers = {[leaf_num |-> 5, book_page_number |-> "42"]}],
      [NoCatalog EXCEPT !.file = TRUE, !.tables = {"page_numbers"},
                        !.page_numbers = {[leaf_num |-> 5, book_page_number |-> "42"],
                                          [leaf_num |-> 6, book_page_number |-> "43"]}] }

NoDownload ==
    [status |-> "none", idx |-> 0, tasks |-> <<>>, successful |-> 0, failed |-> 0,
     skipped |-> 0, reported |-> FALSE, exit_code |-> -1]

\* get-pages -b -r ... -i CATALOG: the pages, the size, --skip-existing and
\* the output files already there, the leaves whose image cannot be
\* fetched or saved, and whether the parallel fetch as a whole fails.
InitDownload ==
    /\ \E c \in DownloadCatalogs : CatalogIs(c)
    /\ before = NoCatalog
    /\ pc = "idle"
    /\ cur = NoCommand
    /\ outcome = NoOutcome
    /\ NoSearch
    /\ \E requested \in (SUBSET DownloadPages) \ {{}}, size \in {"medium", "original"},
          skip_existing \in BOOLEAN, existing \in SUBSET {42}, failing \in SUBSET {5, 6} :
         input = [kind |-> "download", pages |-> Ascending(requested), size |-> size,
                  skip_existing |-> skip_existing, existing |-> existing,
                  failing |-> failing]
    /\ output = NoDownload

\* page_utils.get_leaf_num(page_num, num_type, ia_id=ia_id, db=db)
LeafOfPage(page_num) ==
    get_leaf_num(IntPage(page_num), "book", TRUE, TRUE, "page_numbers" \in tables,
                 page_numbers, [kind |-> "none", pages |-> <<>>])

\* _download_individual_files: size original goes to the sequential loop.
DownloadStarts ==
    /\ pc = "idle" /\ input.kind = "download" /\ output.status = "none"
    /\ pc' = IF input.size = "original" THEN "d_sequential" ELSE "d_convert"
    /\ output' = [output EXCEPT !.status = "running"]
    /\ UNCHANGED <<catalogVars, cur, outcome, before, searchVars, input>>

\* One turn of the first loop: the page becomes a download task, is skipped
\* because its file exists, or, its lookup failing, is logged and passed over.
ConvertPage ==
    /\ pc = "d_convert"
    /\ output.idx < Len(input.pages)
    /\ LET page_num == input.pages[output.idx + 1]
           result == LeafOfPage(page_num)
       IN output' =
            IF result.status = "error" THEN [output EXCEPT !.idx = @ + 1]
            ELSE IF input.skip_existing /\ page_num \in input.existing
            THEN [output EXCEPT !.idx = @ + 1, !.skipped = @ + 1]
            ELSE [output EXCEPT !.idx = @ + 1,
                                !.tasks = Append(@, [page_num |-> page_num,
                                                     leaf_num |-> result.leaf[1]])]
    /\ UNCHANGED <<catalogVars, pc, cur, outcome, before, searchVars, input>>

\* if not download_tasks: echo "0/N pages downloaded, S skipped"; return
NoTasksReturn ==
    /\ pc = "d_convert"
    /\ output.idx = Len(input.pages)
    /\ output.tasks = <<>>
    /\ pc' = "idle"
    /\ output' = [output EXCEPT !.status = "done", !.reported = TRUE, !.exit_code = 0]
    /\ UNCHANGED <<catalogVars, cur, outcome, before, searchVars, input>>

\* ia_client.download_images: every image arrives, or the first refused
\* request raises and the command exits 1 with "Download failed".
DownloadImages ==
    /\ pc = "d_convert"
    /\ output.idx = Len(input.pages)
    /\ output.tasks # <<>>
    /\ \/ /\ pc' = "d_save"
          /\ output' = [output EXCEPT !.idx = 0]
       \/ /\ \E k \in DOMAIN output.tasks : output.tasks[k].leaf_num \in input.failing
          /\ pc' = "idle"
          /\ output' = [output EXCEPT !.status = "done", !.exit_code = 1]
    /\ UNCHANGED <<catalogVars, cur, outcome, before, searchVars, input>>

\* One turn of the second loop: the image is saved, or saving it raises.
SavePage ==
    /\ pc = "d_save"
    /\ output.idx < Len(output.tasks)
    /\ output' =
         IF output.tasks[output.idx + 1].leaf_num \in input.failing
         THEN [output EXCEPT !.idx = @ + 1, !.failed = @ + 1]
         ELSE [output EXCEPT !.idx = @ + 1, !.successful = @ + 1]
    /\ UNCHANGED <<catalogVars, pc, cur, outcome, before, searchVars, input>>

\* The totals are printed; sys.exit(0 if failed == 0 else 1).
DownloadExits ==
    /\ pc \in {"d_save", "d_sequential"}
    /\ output.idx = (IF pc = "d_save" THEN Len(output.tasks) ELSE Len(input.pages))
    /\ pc' = "idle"
    /\ output' = [output EXCEPT !.status = "done", !.reported = TRUE,
                                !.exit_code = IF output.failed = 0 THEN 0 ELSE 1]
    /\ UNCHANGED <<catalogVars, cur, outcome, before, searchVars, input>>

\* _download_individual_files_sequential, one turn: a failed lookup and a
\* failed download count as failed, an existing file as skipped.
SequentialPage ==
    /\ pc = "d_sequential"
    /\ output.idx < Len(input.pages)
    /\ LET page_num == input.pages[output.idx + 1]
           result == LeafOfPage(page_num)
       IN output' =
            IF result.status = "error" THEN [output EXCEPT !.idx = @ + 1, !.failed = @ + 1]
            ELSE IF input.skip_existing /\ page_num \in input.existing
            THEN [output EXCEPT !.idx = @ + 1, !.skipped = @ + 1]
            ELSE IF result.leaf[1] \in input.failing
            THEN [output EXCEPT !.idx = @ + 1, !.failed = @ + 1]
            ELSE [output EXCEPT !.idx = @ + 1, !.successful = @ + 1]
    /\ UNCHANGED <<catalogVars, pc, cur, outcome, before, searchVars, input>>

NextDownload ==
    \/ DownloadStarts
    \/ ConvertPage
    \/ NoTasksReturn
    \/ DownloadImages
    \/ SavePage
    \/ DownloadExits
    \/ SequentialPage

SpecDownload == InitDownload /\ [][NextDownload]_vars

----------------------------------------------------------------------------
(* create-catalog: which OCR source is ingested and what goes with it.     *)

\* What each parser returns for the item, told apart by its blocks.
IngestBlocks(format) ==
    IF format = "searchtext"
    THEN << Block(0, 0, "", <<"a">>), Block(0, 2, "", <<"b">>), Block(1, 0, "", <<"a">>) >>
    ELSE IF format = "djvu"
    THEN << Block(0, 0, "par_000000_000000", <<"a">>),
            Block(1, 0, "par_000001_000000", <<"b">>) >>
    ELSE << Block(0, 0, "x", <<"b">>), Block(1, 0, "y", <<"a">>), Block(1, 1, "z", <<"b">>) >>

\* The result of a download function: blocks, pages, page_numbers_data and
\* the catalog_mode it names, or sys.exit(1).
Downloaded(format, pages_list, numbers, mode) ==
    [status |-> "ok", blocks |-> IngestBlocks(format), pages |-> pages_list,
     page_numbers |-> numbers, catalog_mode |-> mode]
Unavailable(mode) ==
    [status |-> "ok", blocks |-> <<>>, pages |-> {}, page_numbers |-> NoPageNumbers,
     catalog_mode |-> mode]
Exits ==
    [status |-> "exit", blocks |-> <<>>, pages |-> {}, page_numbers |-> NoPageNumbers,
     catalog_mode |-> ""]

\* download_fast_mode: searchtext, page index and page numbers fetched
\* together; without searchtext everything but the metadata is dropped.
download_fast_mode(offer) ==
    IF ~offer.searchtext THEN Unavailable("fallback_djvu")
    ELSE Downloaded("searchtext", {[page_id |-> 0], [page_id |-> 1]}, offer.page_numbers,
                    "searchtext")

download_djvu_mode(offer) ==
    IF ~offer.djvu THEN Unavailable("fallback_hocr")
    ELSE Downloaded("djvu", {}, NoPageNumbers, "djvu")

download_hocr_mode(offer) ==
    IF ~offer.hocr THEN Exits ELSE Downloaded("hocr", {}, NoPageNumbers, "hocr")

\* if catalog_mode == 'hocr': the mapping is fetched when files.xml lists it.
WithPageNumbers(result, offer) ==
    IF result.status = "ok" /\ result.catalog_mode = "hocr"
    THEN [result EXCEPT !.page_numbers = offer.page_numbers]
    ELSE result

\* Step 1 of create_catalog: full mode goes to hOCR, fast mode to
\* searchtext, then DjVu XML, then hOCR.
IngestSources(offer, full) ==
    LET fast == download_fast_mode(offer)
        djvu == download_djvu_mode(offer)
        chosen == IF full THEN download_hocr_mode(offer)
                  ELSE IF fast.catalog_mode # "fallback_djvu"
                  THEN fast
                  ELSE IF djvu.catalog_mode = "fallback_hocr"
                       THEN download_hocr_mode(offer)
                       ELSE [djvu EXCEPT !.page_numbers = fast.page_numbers]
    IN WithPageNumbers(chosen, offer)

\* files.xml of the item.
OfferedFiles(offer) ==
    (IF offer.hocr THEN << [filename |-> "id1_hocr.html", format |-> "hOCR"] >> ELSE <<>>)
    \o (IF offer.page_numbers.present
        THEN << [filename |-> "id1_page_numbers.json", format |-> "JSON"] >> ELSE <<>>)

\* What the archive holds for the item.
Offers ==
    [searchtext : BOOLEAN, djvu : BOOLEAN, hocr : BOOLEAN,
     page_numbers : {NoPageNumbers, PageNumbers2}, metadata : {Metadata1, Metadata2}]

InitIngest ==
    /\ CatalogIs(NoCatalog)
    /\ before = NoCatalog
    /\ pc = "idle"
    /\ cur = NoCommand
    /\ outcome = NoOutcome
    /\ NoSearch
    /\ NoCall

\* create-catalog IDENTIFIER [--full]: the downloads and the parsing; the
\* command exits when no source is left, else it goes on to build.
IngestCreate ==
    /\ pc = "idle"
    /\ \E offer \in Offers, full \in BOOLEAN :
         LET result == IngestSources(offer, full)
         IN /\ input' = [kind |-> "create-catalog", offer |-> offer, full |-> full]
            /\ IF result.status = "exit"
               THEN /\ pc' = "idle"
                    /\ cur' = NoCommand
                    /\ outcome' = [op |-> "create", result |-> "failed"]
               ELSE /\ pc' = "c_open"
                    /\ cur' = [op |-> "create", mode |-> result.catalog_mode,
                               bundle |-> [metadata |-> offer.metadata,
                                           files |-> OfferedFiles(offer),
                                           page_numbers |-> result.page_numbers],
                               blocks |-> result.blocks, pages |-> result.pages]
                    /\ outcome' = NoOutcome
    /\ before' = [NoCatalog EXCEPT !.file = file, !.text_blocks_fts = text_blocks_fts,
                                   !.pages_fts = pages_fts]
    /\ UNCHANGED <<catalogVars, searchVars, output>>

NextIngest ==
    \/ IngestCreate
    \/ OpenDatabase
    \/ DropExisting
    \/ WriteCatalogMetadata
    \/ WriteDocumentMetadata
    \/ WriteArchiveFiles
    \/ WriteTextBlocks
    \/ WritePagesAndPageNumbers
    \/ CreateIndexes
    \/ FtsDropBlockIndex
    \/ FtsCreateBlockIndex
    \/ FtsPopulateBlockIndex
    \/ FtsCreateBlockTriggers
    \/ FtsDropPageIndex
    \/ FtsCreatePageIndex
    \/ FtsPopulatePageIndex
    \/ FtsCreatePageTriggers
    \/ CreateReturns

SpecIngest == InitIngest /\ [][NextIngest]_vars

----------------------------------------------------------------------------
(* Properties of the catalog store.                                        *)

Idle(op, result) == pc = "idle" /\ outcome = [op |-> op, result |-> result]

LeafRows(p) == {r \in text_blocks : r.page_id = p}

\* Every way to put the rows of a set in a sequence.
Orderings(S) ==
    {o \in [1..Cardinality(S) -> S] : \A i, j \in 1..Cardinality(S) : i # j => o[i] # o[j]}

\* Texts concatenated with single-space separators.
RECURSIVE SpaceSeparated(_)
SpaceSeparated(ts) ==
    IF Len(ts) = 0 THEN <<>>
    ELSE IF Len(ts) = 1 THEN ts[1]
    ELSE SpaceSeparated(SubSeq(ts, 1, Len(ts) - 1)) \o <<" ">> \o ts[Len(ts)]

\* t is the texts of leaf p's current blocks, each once, in some order.
IsLeafAggregate(t, p) ==
    \E o \in Orderings(LeafRows(p)) : t = SpaceSeparated([k \in DOMAIN o |-> o[k].text])

\* pages_fts is the per-leaf regroup of text_blocks: one row per leaf that
\* has blocks, none for any other leaf.
PageIndexIsRegroup ==
    /\ \A p \in PageIdsOf(text_blocks) : Cardinality({e \in pages_fts : e.page_id = p}) = 1
    /\ \A e \in pages_fts : /\ e.page_id \in PageIdsOf(text_blocks)
                            /\ IsLeafAggregate(e.page_text, e.page_id)

\* Every entry of the block index is the text of the row with its rowid.
BlockEntriesPointAtTheirRows ==
    \A e \in text_blocks_fts : \E r \in text_blocks : r.rowid = e.rowid /\ r.text = e.text

\* Every row of text_blocks is indexed.
BlockRowsAllIndexed ==
    \A r \in text_blocks : \E e \in text_blocks_fts : r.rowid = e.rowid /\ r.text = e.text

\* C1: when create_catalog_database has returned, pages_fts has exactly one
\* row per leaf of text_blocks holding the aggregate of the leaf's texts,
\* text_blocks_fts indexes exactly the rows of text_blocks, and nothing of
\* the indices found at the path is left.
C1_CreateLeavesIndicesConsistent ==
    (Idle("create", "ok") \/ Idle("rebuild_full", "ok")) =>
        /\ {"text_blocks", "text_blocks_fts", "pages_fts"} \subseteq tables
        /\ PageIndexIsRegroup
        /\ BlockEntriesPointAtTheirRows
        /\ BlockRowsAllIndexed

\* A build over an existing catalog whose page index differed, ending with
\* a leaf of several blocks.
C1_Witness ==
    /\ Idle("create", "ok")
    /\ before.file
    /\ before.pages_fts # {}
    /\ before.pages_fts # pages_fts
    /\ \E e \in pages_fts : Cardinality(LeafRows(e.page_id)) > 1

\* C2: when the text-only rebuild has completed (VACUUM included), every
\* entry of the block index refers to the row whose text it indexes and
\* pages_fts is the per-leaf regroup of the new text_blocks.
C2_TextRebuildLeavesIndicesConsistent ==
    Idle("rebuild_text", "ok") =>
        /\ BlockEntriesPointAtTheirRows
        /\ Cardinality(text_blocks_fts) = Cardinality(text_blocks)
        /\ PageIndexIsRegroup

\* A completed rebuild that changed the blocks and left a gap in the rowids.
C2_Witness ==
    /\ Idle("rebuild_text", "ok")
    /\ before.text_blocks_fts # text_blocks_fts
    /\ \E r \in text_blocks : r.rowid > Cardinality(text_blocks)

AfterReplace == {"fts_drop_blocks", "fts_create_blocks", "fts_populate_blocks",
                 "fts_block_triggers", "fts_drop_pages", "fts_create_pages",
                 "fts_populate_pages", "fts_page_triggers", "r_vacuum"}

BlockIndexDropped == {"fts_create_blocks", "fts_populate_blocks", "fts_block_triggers",
                      "fts_drop_pages", "fts_create_pages", "fts_populate_pages",
                      "fts_page_triggers", "r_vacuum"}

PageIndexDropped == {"fts_create_pages", "fts_populate_pages", "fts_page_triggers",
                     "r_vacuum"}

PageEntriesCurrent ==
    \A e \in pages_fts : /\ e.page_id \in PageIdsOf(text_blocks)
                         /\ IsLeafAggregate(e.page_text, e.page_id)

DiscardedBeforeRebuilt ==
    (cur.op = "rebuild_text" /\ pc \in AfterReplace) =>
        /\ \/ text_blocks_fts = before.text_blocks_fts
           \/ text_blocks_fts = {}
           \/ BlockEntriesPointAtTheirRows /\ BlockRowsAllIndexed
        /\ \/ pages_fts = before.pages_fts
           \/ pages_fts = {}
           \/ PageIndexIsRegroup
        /\ pc \in BlockIndexDropped =>
             text_blocks_fts = {} \/ (BlockEntriesPointAtTheirRows /\ BlockRowsAllIndexed)
        /\ pc \in PageIndexDropped => pages_fts = {} \/ PageIndexIsRegroup

\* The block index is rebuilt from the new blocks while the page index
\* still holds what the command found.
StaleIndexDuringRebuild ==
    /\ cur.op = "rebuild_text"
    /\ pc = "fts_drop_pages"
    /\ text_blocks_fts # {}
    /\ text_blocks_fts # before.text_blocks_fts
    /\ pages_fts = before.pages_fts
    /\ ~PageEntriesCurrent

\* Some sequence of leaf p's texts in ascending block_number order.
InBlockNumberOrder(o) == \A i, j \in DOMAIN o : i < j => o[i].block_number <= o[j].block_number

IsBlockOrderAggregate(t, p) ==
    \E o \in Orderings(LeafRows(p)) :
        /\ InBlockNumberOrder(o)
        /\ t = SpaceSeparated([k \in DOMAIN o |-> o[k].text])

\* C5 as claimed: the page-level aggregate of a leaf, in pages_fts and from
\* get_page_text, is the leaf's texts in ascending block_number order joined
\* by one space.
C5_AggregateInBlockNumberOrder ==
    (pc = "idle" /\ outcome.result = "ok") =>
        \A e \in pages_fts :
            /\ IsBlockOrderAggregate(e.page_text, e.page_id)
            /\ IsBlockOrderAggregate(GetPageText(text_blocks, e.page_id), e.page_id)

\* C6: the text-only rebuild leaves document_metadata, archive_files,
\* catalog_metadata and page_numbers as it found them, while it runs and
\* however it ends.
C6_TextRebuildKeepsMetadata ==
    (cur.op = "rebuild_text" \/ (pc = "idle" /\ outcome.op = "rebuild_text")) =>
        /\ document_metadata = before.document_metadata
        /\ archive_files = before.archive_files
        /\ catalog_metadata = before.catalog_metadata
        /\ page_numbers = before.page_numbers
        /\ meta_layout = before.meta_layout
        /\ tables \cap {"document_metadata", "archive_files", "catalog_metadata", "page_numbers"}
             = before.tables \cap {"document_metadata", "archive_files", "catalog_metadata",
                                   "page_numbers"}

\* A rebuild that failed after it had replaced the blocks of a catalog
\* with a page-number mapping.
C6_Witness ==
    /\ Idle("rebuild_text", "failed")
    /\ text_blocks # before.text_blocks
    /\ page_numbers # {}
    /\ document_metadata # {}

MetadataTables == {"catalog_metadata", "document_metadata", "archive_files"}

\* C7 as claimed: a create_catalog_database that failed leaves no new file
\* with tables at the output path, and no file that has metadata tables
\* but lacks the text blocks or an index.
C7_FailedBuildLeavesNoArtifact ==
    Idle("create", "failed") =>
        /\ ~before.file => ~(file /\ tables # {})
        /\ ~(/\ file
             /\ tables \cap MetadataTables # {}
             /\ ~({"text_blocks", "text_blocks_fts", "pages_fts"} \subseteq tables))

C4_TriggersKeepIndicesCurrent ==
    outcome.op \in {"insert", "update", "delete"} =>
        /\ PageIndexIsRegroup
        /\ BlockEntriesPointAtTheirRows
        /\ BlockRowsAllIndexed
        /\ Cardinality(text_blocks_fts) = Cardinality(text_blocks)

\* A delete took the last block of a leaf while other leaves keep theirs.
C4_Witness ==
    /\ outcome.op = "delete"
    /\ pages_fts # {}
    /\ before.text_blocks # {}
    /\ \E p \in PageIdsOf(before.text_blocks) :
         /\ p \notin PageIdsOf(text_blocks)
         /\ \A e \in pages_fts : e.page_id # p

\* Some special character of the term stands outside every quoted string
\* of the text the term is part of: the term is not itself enclosed in
\* double quotes, and an even number of double quotes precedes the
\* character (`opened` tells whether the count before the term is odd).
TermExposed(term, opened) ==
    /\ ~StartsAndEndsWithQuote(term)
    /\ ~FTS5_KEYWORD(term)
    /\ \E i \in 1..Len(term) :
         /\ term[i] \in FTS5_SPECIAL_CHARS
         /\ (Cardinality({k \in 1..(i - 1) : term[k] = Quote}) % 2 = 0) = ~opened

RECURSIVE SomeTermExposed(_, _, _, _)
SomeTermExposed(s, term, opened, inside) ==
    IF s = <<>> THEN TermExposed(term, opened)
    ELSE IF Head(s) = Space
         THEN TermExposed(term, opened) \/ SomeTermExposed(Tail(s), <<>>, inside, inside)
         ELSE SomeTermExposed(Tail(s), Append(term, Head(s)), opened,
                              IF Head(s) = Quote THEN ~inside ELSE inside)

\* C9: in default mode no whitespace-delimited term of the query handed to
\* the engine holds one of - * ^ : ( ) outside double quotes, unless the
\* term is an operator token.
C9_SpecialTermsReachEngineQuoted ==
    (pc = "s_match" /\ ~raw) => ~SomeTermExposed(fts_query, <<>>, FALSE, FALSE)

SelfAdjusting == <<"self", "-", "adjusting">>

\* C10: on the corpus a default-mode page search for self-adjusting
\* returns leaf 1 and not leaf 2, and in raw mode the query reaches the
\* engine unchanged.
C10_HyphenatedSearchFindsLiteralPage ==
    (pc = "idle" /\ outcome.op = "search" /\ query = SelfAdjusting /\ ~use_blocks) =>
        IF raw THEN (fts_query # <<>> => fts_query = query)
        ELSE /\ results.status = "ok"
             /\ {r.leaf : r \in results.rows} = {1}

\* On a catalog whose document_metadata has the ia_identifier column the
\* search of C10 does run, and returns leaf 1 only.
HyphenatedSearchOnLegacyCatalog ==
    (/\ pc = "idle" /\ outcome.op = "search" /\ query = SelfAdjusting
     /\ meta_layout = "ia_identifier" /\ ~raw) =>
        /\ fts_query = <<Quote>> \o SelfAdjusting \o <<Quote>>
        /\ results.status = "ok"
        /\ {r.leaf : r \in results.rows} = {1}

\* The leaves whose page text holds a word that starts with the prefix.
LeavesWithPrefix(prefix) ==
    {e.page_id : e \in {f \in pages_fts :
        \E i \in 1..Len(Tokenize(f.page_text)) :
            LET word == Tokenize(f.page_text)[i]
            IN Len(word) >= Len(prefix) /\ \A k \in 1..Len(prefix) : word[k] = prefix[k]}}

\* C11: a default-mode page search for anat* that reaches the engine is a
\* prefix match: it returns every leaf with a word starting with anat.
C11_DefaultModePrefixWildcard ==
    (/\ pc = "idle" /\ outcome.op = "search" /\ meta_layout = "ia_identifier"
     /\ ~raw /\ ~use_blocks /\ query = <<"anat", "*">>) =>
        /\ results.status = "ok"
        /\ {r.leaf : r \in results.rows} = LeavesWithPrefix(<<"anat">>)

\* In raw mode the same query is the prefix match.
RawModePrefixWildcard ==
    (/\ pc = "idle" /\ outcome.op = "search" /\ meta_layout = "ia_identifier"
     /\ raw /\ ~use_blocks /\ query = <<"anat", "*">>) =>
        /\ results.status = "ok"
        /\ {r.leaf : r \in results.rows} = LeavesWithPrefix(<<"anat">>)

----------------------------------------------------------------------------
(* Properties of the OCR parsers.                                          *)

Parsed(kind) == pc = "parsed" /\ input.kind = kind /\ output.status = "ok"

HasVisibleCharacter(text) == \E i \in DOMAIN text : ~IsWhitespace(text[i])

\* C12: whichever of parse_hocr, blocks_from_searchtext and parse_djvu_xml
\* ran and whatever its input was, every Text Block it returned has a text
\* that is not empty once leading and trailing whitespace is removed.
C12_ReturnedBlocksHaveText ==
    \A k \in DOMAIN output.blocks : HasVisibleCharacter(output.blocks[k].text)

\* parse_hocr returned a block of a page that also held a block element
\* whose words are all blank.
C12_Witness ==
    /\ Parsed("hocr")
    /\ output.blocks # <<>>
    /\ \E p \in DOMAIN input.pages : \E e \in DOMAIN input.pages[p].elements :
          ~HasVisibleCharacter(extract_plain_text(input.pages[p].elements[e]))

\* Pairs of returned blocks of one page element, the first returned first.
SamePagePairs ==
    {<<i, j>> \in (DOMAIN output.blocks) \X (DOMAIN output.blocks) :
        i < j /\ output.blocks[i].src[1] = output.blocks[j].src[1]}

TopLeft(block) == <<block.bbox[2], block.bbox[1]>>

NumberedAsReturned ==
    \A pair \in SamePagePairs :
        output.blocks[pair[1]].block_number < output.blocks[pair[2]].block_number

SortedByTopLeft ==
    \A pair \in SamePagePairs :
        LET a == output.blocks[pair[1]]
            b == output.blocks[pair[2]]
        IN (a.bbox # NoValue /\ b.bbox # NoValue) => ~PositionLess(TopLeft(b), TopLeft(a))

TiesInSourceOrder ==
    \A pair \in SamePagePairs :
        LET a == output.blocks[pair[1]]
            b == output.blocks[pair[2]]
        IN (\/ a.bbox = NoValue /\ b.bbox = NoValue
            \/ a.bbox # NoValue /\ b.bbox # NoValue /\ TopLeft(a) = TopLeft(b))
           => a.src[2] < b.src[2]

\* C13: parse_hocr returns the blocks of each page in non-decreasing order
\* of (bbox top, bbox left) with block_number increasing in that order, and
\* two blocks of a page that both lack a bbox, or whose (top, left) are
\* equal, come in the order their elements have in the document.
C13_BlocksInPositionThenSourceOrder ==
    input.kind = "hocr" => (NumberedAsReturned /\ SortedByTopLeft /\ TiesInSourceOrder)

WellFormed(pageindex) == \A k \in DOMAIN pageindex : Len(pageindex[k]) = 4

\* The character positions (counted from 1) of page entry k's half-open
\* range text[char_start:char_end) that lie within the text.
PageRange(k) ==
    {i \in DOMAIN input.text : input.pageindex[k][1] < i /\ i <= input.pageindex[k][2]}

\* The lines of page entry k: the maximal runs of the range without a
\* newline, as <<number of the line, positions of the run>>.  A run may be
\* empty; the number of a line is the count of newlines before it.
PageLines(k) ==
    LET range == PageRange(k)
        breaks == {i \in range : input.text[i] = Newline}
        IsRun(run) ==
            /\ run \cap breaks = {}
            /\ \A i, j \in run : \A m \in range : (i < m /\ m < j) => m \in run
            /\ \A i \in run : \A m \in range \ run : (m = i - 1 \/ m = i + 1) => m \in breaks
    IN {<<Cardinality({b \in breaks : \A i \in run : b < i}), run>> :
            run \in {r \in SUBSET range : r # {} /\ IsRun(r)}}

\* The text at a run of positions with leading and trailing whitespace
\* removed.
Trimmed(run) ==
    LET visible == {i \in run : ~IsWhitespace(input.text[i])}
    IN IF visible = {} THEN <<>>
       ELSE SubSeq(input.text, Min(visible), Max(visible))

\* What the general rule asks of page entry k (page_id k - 1).
ExpectedOfPage(k) ==
    {[page_id |-> k - 1, block_number |-> line[1], text |-> Trimmed(line[2])] :
        line \in {l \in PageLines(k) : Trimmed(l[2]) # <<>>}}

ReturnedOfPage(k) ==
    {[page_id |-> b.page_id, block_number |-> b.block_number, text |-> b.text] :
        b \in {output.blocks[i] : i \in {j \in DOMAIN output.blocks :
                                            output.blocks[j].page_id = k - 1}}}

OneBlockPerNonEmptyLine ==
    /\ output.status = "ok"
    /\ \A k \in DOMAIN input.pageindex : ReturnedOfPage(k) = ExpectedOfPage(k)
    /\ \A i, j \in DOMAIN output.blocks :
          (/\ output.blocks[i].page_id = output.blocks[j].page_id
           /\ output.blocks[i].block_number = output.blocks[j].block_number) => i = j
    /\ \A i \in DOMAIN output.blocks : output.blocks[i].page_id + 1 \in DOMAIN input.pageindex

IsHelloWorldCall ==
    /\ pc = "parsed" /\ input.kind = "searchtext"
    /\ input.text = HelloWorld /\ input.pageindex = HelloWorldIndex

LeafTexts == [k \in DOMAIN output.blocks |-> <<output.blocks[k].page_id, output.blocks[k].text>>]

\* C14 as amended: page i of the page index yields one block per line of
\* text[char_start:char_end) that is non-empty after trimming, with
\* page_id i; on the page index [(0,10,0,50),(10,25,50,140)] over
\* "hello world\nfoo bar baz" that is three blocks: leaf 0 "hello worl",
\* leaf 1 "d" and leaf 1 "foo bar baz".
C14_SearchtextBlocksPerLineOfRange ==
    /\ (pc = "parsed" /\ input.kind = "searchtext" /\ WellFormed(input.pageindex))
           => OneBlockPerNonEmptyLine
    /\ IsHelloWorldCall =>
           LeafTexts = << <<0, <<"h", "e", "l", "l", "o", " ", "w", "o", "r", "l">> >>,
                          <<1, <<"d">> >>,
                          <<1, <<"f", "o", "o", " ", "b", "a", "r", " ", "b", "a", "z">> >> >>

\* The call on the example has returned, the letter d of "world" on leaf 1.
C14_Witness ==
    /\ IsHelloWorldCall
    /\ Len(output.blocks) = 3
    /\ output.blocks[2].page_id = 1 /\ output.blocks[2].text = <<"d">>

\* C14 as stated: on that example blocks_from_searchtext returns exactly
\* two blocks, leaf 0 "hello world" and leaf 1 "foo bar baz", and in
\* general one block per non-empty trimmed line of each page's range.
C14_ExampleYieldsTwoBlocks ==
    /\ (pc = "parsed" /\ input.kind = "searchtext" /\ WellFormed(input.pageindex))
           => OneBlockPerNonEmptyLine
    /\ IsHelloWorldCall =>
           LeafTexts = << <<0, <<"h", "e", "l", "l", "o", " ", "w", "o", "r", "l", "d">> >>,
                          <<1, <<"f", "o", "o", " ", "b", "a", "r", " ", "b", "a", "z">> >> >>

\* The element of the input a returned hOCR block was read from.
ElementOf(block) == input.pages[block.src[1]].elements[block.src[2]]

RECURSIVE TotalAt(_, _)
TotalAt(optionals, at) ==
    IF at = {} THEN 0
    ELSE LET i == CHOOSE i \in at : TRUE
         IN optionals[i][1] + TotalAt(optionals, at \ {i})

\* avg is the exact mean of the values present among the optionals, or
\* null when there is none.
IsMeanOfPresent(avg, optionals) ==
    LET at == {i \in DOMAIN optionals : optionals[i] # NoValue}
    IN IF at = {} THEN avg = NoValue
       ELSE avg # NoValue /\ avg[1] = TotalAt(optionals, at) /\ avg[2] = Cardinality(at)

\* C15: the avg_confidence and avg_font_size parse_hocr returns for a block
\* are the mean of the x_wconf and x_fsize values of exactly the words of
\* the block that carry one: words without the value do not count, the
\* average is null when no word carries it, and confidences 91 and 87
\* average to 89.
C15_AveragesOverPresentValues ==
    Parsed("hocr") =>
        \A k \in DOMAIN output.blocks :
            LET block == output.blocks[k]
                words == ElementOf(block).words
                wconf == [i \in DOMAIN words |-> words[i].wconf]
                fsize == [i \in DOMAIN words |-> words[i].fsize]
            IN /\ IsMeanOfPresent(block.avg_confidence, wconf)
               /\ IsMeanOfPresent(block.avg_font_size, fsize)
               /\ {wconf[i] : i \in DOMAIN wconf} \ {NoValue} = {<<91>>, <<87>>}
                     /\ Cardinality({i \in DOMAIN wconf : wconf[i] # NoValue}) = 2
                     => block.avg_confidence[1] = 89 * block.avg_confidence[2]

\* A returned block whose words carry 91, 87 and no confidence, and of
\* which only one carries a font size.
C15_Witness ==
    /\ Parsed("hocr")
    /\ \E k \in DOMAIN output.blocks :
          /\ ElementOf(output.blocks[k]).words = WordsRated
          /\ output.blocks[k].avg_confidence = <<178, 2>>
          /\ output.blocks[k].avg_font_size = <<10, 1>>

\* The key the store uses for a returned block of the parser that ran.
StoreKey(block) ==
    IF input.kind = "searchtext" THEN <<block.page_id, block.block_number>>
    ELSE <<block.hocr_id>>

KeysDistinct ==
    \A i, j \in DOMAIN output.blocks :
        StoreKey(output.blocks[i]) = StoreKey(output.blocks[j]) => i = j

\* C16: the blocks a parser returns for one document have pairwise distinct
\* keys (hocr_id, or (page_id, block_number) in searchtext mode), and after
\* create_catalog_database has stored them text_blocks holds exactly one row
\* per returned block.
C16_OneRowPerEmittedBlock ==
    /\ output.status = "ok" => KeysDistinct
    /\ pc = "stored" => Cardinality(text_blocks) = Len(output.blocks)

\* The same for the two parsers that make the key themselves.
GeneratedKeysDistinct ==
    input.kind \in {"searchtext", "djvu"} => C16_OneRowPerEmittedBlock

\* The input of the call is malformed: markup that breaks off, or a page
\* index with an entry that is not a 4-tuple.
Malformed ==
    \/ input.kind \in {"hocr", "djvu"} /\ input.truncated
    \/ input.kind = "searchtext" /\ ~WellFormed(input.pageindex)

FailedClosed ==
    /\ output.status = "error"
    /\ output.blocks = <<>>
    /\ text_blocks = {} /\ "text_blocks" \notin tables

\* C17: a parse call on malformed input ends with an error and returns no
\* Text Blocks, not even those of the part it could read, and nothing of
\* the document reaches the catalog.
C17_MalformedInputFailsClosed == Malformed => FailedClosed

\* The same for the two parsers that do not recover from broken input.
StrictParsersFailClosed == input.kind \in {"searchtext", "djvu"} => C17_MalformedInputFailsClosed

----------------------------------------------------------------------------
(* Properties of the page resolver.                                        *)

\* The calls made so far that asked the catalog handle for a book page.
TableLookups ==
    IF input.kind = "get-pages" /\ input.page_type = "book" /\ input.db
          /\ "page_numbers" \in tables
    THEN DOMAIN output.results ELSE {}

\* The argument of call k names the book page P: the string itself, or
\* the integer written in decimal.
Names(k, P) ==
    \/ input.batch[k] = StrPage(P)
    \/ P = "42" /\ input.batch[k] = IntPage(42)

LeavesOf(P) == {r.leaf_num : r \in {q \in page_numbers : q.book_page_number = P}}

\* C18 as amended: for every row (leaf L, book page P) of the persisted
\* page_numbers table, get_leaf_num(P, 'book', db=catalog) returns the
\* lowest leaf whose row carries P, which is L when no other row carries
\* P; with the mapping {leaf 5, book_page "42"} resolving 42 returns 5.
C18_RowResolvesToLowestLeafOfItsPage ==
    \A k \in TableLookups :
        /\ \A r \in page_numbers :
              Names(k, r.book_page_number) =>
                  /\ output.results[k].status = "ok"
                  /\ output.results[k].leaf[1] \in LeavesOf(r.book_page_number)
                  /\ \A l \in LeavesOf(r.book_page_number) : output.results[k].leaf[1] <= l
                  /\ LeavesOf(r.book_page_number) = {r.leaf_num}
                        => output.results[k].leaf = <<r.leaf_num>>
        /\ (page_numbers = {[leaf_num |-> 5, book_page_number |-> "42"]}
               /\ input.batch[k] = IntPage(42))
              => output.results[k].leaf = <<5>>

\* Leaves 0 and 5 both carry book page 42, and resolving 42 gave leaf 0.
C18_Witness ==
    /\ page_numbers = {[leaf_num |-> 0, book_page_number |-> "42"],
                       [leaf_num |-> 5, book_page_number |-> "42"]}
    /\ \E k \in TableLookups :
          input.batch[k] = IntPage(42) /\ output.results[k].leaf = <<0>>

\* C18 as stated: for every row (leaf L, book page P) of the persisted
\* page_numbers table, get_leaf_num(P, 'book', db=catalog) returns L.
C18_EveryRowResolvesToItsLeaf ==
    \A k \in TableLookups : \A r \in page_numbers :
        Names(k, r.book_page_number) =>
            /\ output.results[k].status = "ok"
            /\ output.results[k].leaf = <<r.leaf_num>>

\* The calls made so far that asked for a book page.
BookLookups ==
    IF input.kind = "get-pages" /\ input.page_type = "book"
    THEN DOMAIN output.results ELSE {}

TableAvailable == input.db /\ "page_numbers" \in tables

\* The archive's mapping resource names the page call k asks for.
ArchiveNames(k) ==
    /\ input.archive.kind = "pages"
    /\ \E e \in DOMAIN input.archive.pages : \E P \in BookPages :
          input.archive.pages[e].pageNumber = P /\ Names(k, P)

NeverFetchesBesideTable == \A k \in BookLookups : TableAvailable => ~output.results[k].fetched

\* C19: get_leaf_num for a book page reads the persisted page_numbers
\* table when the catalog has one and then never fetches; when the table
\* is unavailable and an identifier is supplied, also with a catalog handle
\* that lacks the table, it resolves through the fetch of the archive's
\* mapping resource.
C19_FetchExactlyWhenTableUnavailable ==
    \A k \in BookLookups :
        /\ TableAvailable => ~output.results[k].fetched
        /\ (~TableAvailable /\ input.ia_id) =>
              /\ output.results[k].fetched
              /\ ArchiveNames(k) => output.results[k].status = "ok"

\* The messages that report a page missing from a mapping.
NotFoundMessages ==
    {"Could not look up book page: Book page not found in page_numbers table",
     "Could not look up book page: Book page not found in page_numbers.json"}

IsNotFound(result) ==
    result.status = "error" /\ result.raised = "ValueError" /\ result.message \in NotFoundMessages

\* A failure the caller can tell from NotFound.
IsSourceUnavailable(result) ==
    result.status = "error" /\ result.raised = "ValueError" /\ result.message \notin NotFoundMessages

\* Call k asks for a page that an available mapping does not hold: the
\* table of the catalog, or without one the resource behind the identifier.
AbsentFromAvailableMapping(k) ==
    \/ TableAvailable /\ \A r \in page_numbers : ~Names(k, r.book_page_number)
    \/ ~TableAvailable /\ input.ia_id /\ input.archive.kind = "pages" /\ ~ArchiveNames(k)

NoMappingSource == ~TableAvailable /\ ~input.ia_id

CatalogUntouched == (pc = "resolving" \/ output.status = "done") => CatalogIs(before)

BatchGoesOn == output.status = "done" => Len(output.results) = Len(input.batch)

\* C20: resolving a book page that an available mapping does not hold ends
\* in a NotFound error the caller catches, resolving with neither a table
\* nor a fetch path ends in a different, SourceUnavailable error, and in
\* both cases the catalog is as before and the batch goes on to its end.
C20_NotFoundApartFromSourceUnavailable ==
    /\ \A k \in BookLookups :
          /\ AbsentFromAvailableMapping(k) => IsNotFound(output.results[k])
          /\ NoMappingSource => IsSourceUnavailable(output.results[k])
    /\ CatalogUntouched
    /\ BatchGoesOn

\* The same with the mapping taken from the handle that was passed, the
\* way get_leaf_num chooses it.
NotFoundOnTheChosenPath ==
    /\ \A k \in BookLookups :
          /\ (\/ TableAvailable /\ \A r \in page_numbers : ~Names(k, r.book_page_number)
              \/ ~input.db /\ input.ia_id /\ input.archive.kind = "pages" /\ ~ArchiveNames(k))
                => IsNotFound(output.results[k])
          /\ NoMappingSource => IsSourceUnavailable(output.results[k])
    /\ CatalogUntouched
    /\ BatchGoesOn

----------------------------------------------------------------------------
(* Properties of what searches and text lookups report.                    *)

\* The book page a leaf is to be reported with: that of its page_numbers
\* row, blank when it has none.
MappedPage(leaf) ==
    IF \E r \in page_numbers : r.leaf_num = leaf
    THEN (CHOOSE r \in page_numbers : r.leaf_num = leaf).book_page_number
    ELSE ""

SearchCalled == input.kind \in {"search_pages", "search_blocks"} /\ output.status # "none"
TextCalled == input.kind = "get_page_text" /\ output.status # "none"

\* The rows of the index the call searched that match its query.
Matched ==
    IF input.kind = "search_blocks"
    THEN Match(text_blocks_fts, "text", input.query)
    ELSE Match(pages_fts, "page_text", input.query)

\* The page_id of the text a matched index row holds: its own in the page
\* index, that of the block with its rowid in the block index.
MatchedPageId(e) ==
    IF input.kind = "search_blocks"
    THEN (CHOOSE t \in text_blocks : t.rowid = e.rowid).page_id
    ELSE e.page_id

\* C21: a search whose query the engine accepts, and a text lookup of at
\* least one leaf, succeed and report every leaf with the book page of its
\* page_numbers row, blank when the leaf is unmapped; the leaf of a search
\* result is the page_id of a matched row.
C21_LeafReportedWithMappedPageOrBlank ==
    /\ (SearchCalled /\ Matched.status = "ok") =>
          /\ output.status = "ok"
          /\ \A r \in output.rows :
                /\ r.page = MappedPage(r.leaf)
                /\ \E e \in Matched.rows : e.rowid = r.rowid /\ MatchedPageId(e) = r.leaf
    /\ TextCalled =>
          /\ output.status = "ok"
          /\ \A k \in DOMAIN output.texts :
                /\ output.texts[k].leaf = input.leaf_nums[k]
                /\ output.texts[k].page = MappedPage(input.leaf_nums[k])

\* On a catalog that has the page_numbers table the reports are as C21
\* states them.
ReportedPagesWhereTableExists ==
    "page_numbers" \in tables => C21_LeafReportedWithMappedPageOrBlank

\* A leaf without a row is reported with a blank page where the table exists.
UnmappedLeafReportedBlank ==
    /\ "page_numbers" \in tables
    /\ SearchCalled /\ \E r \in output.rows : r.leaf = 7 /\ r.page = ""

PageSearchCalled == input.kind = "search_pages" /\ output.status # "none"

\* The leaves whose page aggregate matches the query of the call.
MatchingLeaves == {e.page_id : e \in Match(pages_fts, "page_text", input.query).rows}

\* The excerpt holds a term of the text between the markers.
HasMarkedMatch(snippet) == \E k \in DOMAIN snippet : snippet[k].marked

\* C22: a page search whose query the engine accepts returns min(limit,
\* matching leaves) results, each for a different leaf whose page aggregate
\* matches, with the match marked in its excerpt; a search for femur with
\* room for two results returns leaves 3 and 7.
C22_OneResultPerMatchingLeaf ==
    (PageSearchCalled /\ Match(pages_fts, "page_text", input.query).status = "ok") =>
        /\ output.status = "ok"
        /\ {r.leaf : r \in output.rows} \subseteq MatchingLeaves
        /\ Cardinality({r.leaf : r \in output.rows})
              = Min({input.limit, Cardinality(MatchingLeaves)})
        /\ \A r1, r2 \in output.rows : r1.leaf = r2.leaf => r1 = r2
        /\ \A r \in output.rows : HasMarkedMatch(r.snippet)
        /\ (input.query = <<"femur">> /\ input.limit >= 2) =>
              {r.leaf : r \in output.rows} = {3, 7}

\* On a catalog that has the page_numbers table the page search is as C22
\* states it.
PageSearchWhereTableExists ==
    "page_numbers" \in tables => C22_OneResultPerMatchingLeaf

\* A limit of one cuts the two matching leaves down to one result.
LimitCutsPageResults ==
    /\ "page_numbers" \in tables /\ PageSearchCalled
    /\ input.query = <<"femur">> /\ input.limit = 1
    /\ Cardinality(output.rows) = 1

----------------------------------------------------------------------------
(* Properties of repeated builds.                                          *)

\* The rows of text_blocks and of pages_fts, generated row ids aside.
BlockContent(rows) ==
    {[page_id |-> r.page_id, block_number |-> r.block_number,
      hocr_id |-> r.hocr_id, text |-> r.text] : r \in rows}
PageContent(index) == {[page_id |-> e.page_id, page_text |-> e.page_text] : e \in index}

\* The catalog a run of the command's inputs builds where there was none.
FirstRun ==
    BuiltCatalog([mode |-> cur.mode, blocks |-> cur.blocks, pages |-> cur.pages],
                 cur.bundle, "key_value")

\* The command in progress completes.
Completes == pc # "idle" /\ pc' = "idle" /\ outcome'.result = "ok"

\* C23: when create_catalog_database or the text-only rebuild completes,
\* text_blocks and pages_fts hold, row ids aside, what a first run of the
\* same inputs builds, whatever catalog the run found at the path; run on
\* the catalog of a first run they are left with its content.
C23_RepeatedBuildSameContent ==
    [][(Completes /\ cur.op \in {"create", "rebuild_text"}) =>
          /\ BlockContent(text_blocks') = BlockContent(FirstRun.text_blocks)
          /\ PageContent(pages_fts') = PageContent(FirstRun.pages_fts)]_vars

\* A text-only rebuild over a catalog that held the same blocks, several of
\* them on one leaf, has completed.
C23_Witness ==
    /\ Idle("rebuild_text", "ok")
    /\ BlockContent(before.text_blocks) = BlockContent(text_blocks)
    /\ PageContent(before.pages_fts) = PageContent(pages_fts)
    /\ \E e \in pages_fts : Cardinality(LeafRows(e.page_id)) > 1

----------------------------------------------------------------------------
(* Properties of the batch download.                                       *)

DownloadDone == input.kind = "download" /\ output.status = "done"

\* The requested pages whose book page does not resolve to a leaf.
Misses == {k \in DOMAIN input.pages : LeafOfPage(input.pages[k]).status = "error"}

\* C24: when the batch is through, every requested page was processed, the
\* totals printed add up to the number requested with every resolution
\* miss among the failures, and the exit code is non-zero whenever a page
\* did not resolve.
C24_BatchAccountsForEveryPage ==
    DownloadDone =>
        /\ output.reported =>
              /\ output.successful + output.failed + output.skipped = Len(input.pages)
              /\ output.failed >= Cardinality(Misses)
        /\ Misses # {} => output.exit_code # 0

\* The sequential loop (size original) accounts for every page.
SequentialBatchAccountsForEveryPage ==
    input.size = "original" => C24_BatchAccountsForEveryPage

\* The parallel loop processes the pages after a miss and saves them.
PagesAfterMissProcessed ==
    (DownloadDone /\ input.size # "original" /\ output.reported) =>
        output.successful + output.failed + output.skipped
            = Len(input.pages) - Cardinality(Misses)

\* A sequential batch with a miss between two pages that were saved.
SequentialMissCounted ==
    /\ DownloadDone /\ input.size = "original"
    /\ Cardinality(Misses) = 1 /\ output.failed = 1 /\ output.successful = 2
    /\ output.exit_code = 1

----------------------------------------------------------------------------
(* Properties of the ingestion mode and of the page-number mapping.        *)

SourceFormats == {"searchtext", "djvu", "hocr"}

CatalogModes == {r.value : r \in {m \in catalog_metadata : m.key = "catalog_mode"}}

ProducedBy ==
    {f \in SourceFormats :
        BlockContent(text_blocks) = BlockContent(InsertAll({}, IngestBlocks(f), PkOf(f)))}

\* When create-catalog has built a catalog, catalog_mode is the format that
\* produced its blocks and no fallback sentinel.
CreateNamesBlockFormat ==
    Idle("create", "ok") => (CatalogModes = ProducedBy /\ Cardinality(CatalogModes) = 1)

\* C30: when create-catalog has built a catalog for an item that offers a
\* page-number mapping, the catalog has the page_numbers table with it.
C30_OfferedMappingIsStored ==
    (Idle("create", "ok") /\ input.offer.page_numbers.present) =>
        /\ "page_numbers" \in tables
        /\ page_numbers = PageRecords(input.offer.page_numbers)

\* On every path but the DjVu fallback the mapping is stored.
MappingStoredOutsideDjvu ==
    "djvu" \notin CatalogModes => C30_OfferedMappingIsStored

\* An hOCR fallback build (no searchtext, no DjVu XML) that stored the mapping.
HocrFallbackStoresMapping ==
    /\ Idle("create", "ok") /\ ~input.full /\ CatalogModes = {"hocr"}
    /\ page_numbers = PageRecords(PageNumbers2)

----------------------------------------------------------------------------
(* Properties of the block numbering.                                      *)

\* The blocks returned before block k from the same page of the source.
EarlierOfPage(k) ==
    {i \in DOMAIN output.blocks : i < k /\ output.blocks[i].src[1] = output.blocks[k].src[1]}

\* C26: whichever parser returned, the block_numbers of the blocks of a
\* page are 0, 1, 2, ... in the order the blocks were emitted: each block
\* is numbered by the count of the page's blocks emitted before it.
C26_BlockNumbersConsecutive ==
    (pc = "parsed" /\ output.status = "ok") =>
        \A k \in DOMAIN output.blocks :
            output.blocks[k].block_number = Cardinality(EarlierOfPage(k))

\* parse_djvu_xml counts the paragraphs it emits, so its numbers have no gap.
DjvuBlockNumbersConsecutive ==
    input.kind = "djvu" => C26_BlockNumbersConsecutive

\* parse_djvu_xml returned a block after a paragraph without words.
DjvuSkippedParagraphLeavesNoGap ==
    /\ Parsed("djvu")
    /\ \E k \in DOMAIN output.blocks :
          output.blocks[k].block_number < output.blocks[k].src[2] - 1

----------------------------------------------------------------------------
(* Properties of escape_fts_query.                                         *)

Escaped == pc = "s_match" /\ ~raw

QuotesBefore(q, i) == Cardinality({k \in 1..(i - 1) : q[k] = Quote})

\* The double-quoted phrases of a query: from an opening quote to the
\* quote that closes it.
PhraseSpans(q) ==
    {<<i, j>> \in (DOMAIN q) \X (DOMAIN q) :
        /\ i < j /\ q[i] = Quote /\ q[j] = Quote
        /\ QuotesBefore(q, i) % 2 = 0
        /\ \A k \in (i + 1)..(j - 1) : q[k] # Quote}

\* Every quote of the query opens or closes a phrase, and phrases stand
\* apart from the terms around them.
WellQuoted(q) ==
    /\ QuotesBefore(q, Len(q) + 1) % 2 = 0
    /\ \A span \in PhraseSpans(q) :
          /\ span[1] = 1 \/ q[span[1] - 1] = Space
          /\ span[2] = Len(q) \/ q[span[2] + 1] = Space

\* s occurs in q as it stands.
OccursIn(s, q) ==
    \E off \in 0..(Len(q) - Len(s)) : \A k \in 1..Len(s) : q[off + k] = s[k]

PhraseAt(q, span) == [k \in 1..(span[2] - span[1] + 1) |-> q[span[1] + k - 1]]

\* C27: the query handed to the engine in default mode holds every
\* double-quoted phrase of the query typed, quotes included, as it stood.
C27_QuotedPhrasesPreserved ==
    (Escaped /\ WellQuoted(query)) =>
        \A span \in PhraseSpans(query) : OccursIn(PhraseAt(query, span), fts_query)

\* Phrases of one word are preserved, special characters or not.
OneWordPhrasesPreserved ==
    (Escaped /\ WellQuoted(query)) =>
        \A span \in PhraseSpans(query) :
            (\A k \in span[1]..span[2] : query[k] # Space)
                => OccursIn(PhraseAt(query, span), fts_query)

\* A quoted hyphenated word after a hyphenated term that was quoted.
QuotedWordKeptBesideEscapedTerm ==
    /\ Escaped
    /\ query = <<"self", "-", "adjusting", Space, Quote, "self", "-", "adjusting", Quote>>
    /\ fts_query = <<Quote, "self", "-", "adjusting", Quote, Space,
                     Quote, "self", "-", "adjusting", Quote>>

\* C28: escaping the query that escape_fts_query returned changes nothing.
C28_EscapeIsIdempotent ==
    Escaped => escape_fts_query(fts_query) = fts_query

\* A query that escaping changed: a hyphenated term was quoted and a
\* half-quoted one had its quote doubled.
C28_Witness ==
    /\ Escaped
    /\ fts_query # query
    /\ \E k \in DOMAIN fts_query : k > 1 /\ fts_query[k] = Quote /\ fts_query[k - 1] = Quote
    /\ escape_fts_query(fts_query) = fts_query

----------------------------------------------------------------------------
(* Properties of the order of a rebuild.                                   *)

\* The rebuild is fetching and parsing its source.
Fetching == pc \in {"r_download", "rf_download"}

\* C29: while a rebuild, text-only or full, fetches and parses, the catalog
\* is as the command found it; it is still so when download_file and
\* parse_hocr have returned and the drop is next, and when the command
\* ends there because a download or the parsing failed.
C29_NothingDestroyedBeforeSourceParsed ==
    [][Fetching =>
          /\ Catalog = before
          /\ pc' \in {"idle", "r_drop"} => Catalog' = before
          /\ pc' = "idle" => outcome'.result = "failed"]_vars

\* A full rebuild that failed while fetching, the catalog with its blocks
\* still there.
C29_Witness ==
    /\ Idle("rebuild_full", "failed")
    /\ Catalog = before
    /\ text_blocks # {}
    /\ text_blocks_fts # {}

====
